---- MODULE Spec2Model ----
(***************************************************************************)
(* Ingestion engine of merchwireanalytics: the per-host rate limiter       *)
(* (app/utils/rate_limit.py), the retry wrapper (app/utils/retry.py), the  *)
(* storefront crawler with its robots gate and validator cache             *)
(* (app/ingest/shopify.py) and the daily run (app/jobs/daily.py).          *)
(*                                                                         *)
(* The specifications of the module:                                       *)
(*   SpecLimiter   RateLimiter.wait_for_host under concurrent callers      *)
(*   SpecRetry     one call of a retry_async wrapper                       *)
(*   Spec          run_daily: crawl and persist every brand, ads, digest   *)
(*   SpecOneBrand  run_daily of one brand; the storefront may lack a       *)
(*                 product sitemap                                         *)
(*   SpecSemaphore the requests of one crawler under its semaphore         *)
(*   SpecCache     ETagCache objects over one backing store                *)
(*   SpecPersist   _persist_records of the crawl results of one product    *)
(*   SpecSignals   the functions of app/logic/signals.py and ranking.py    *)
(*   SpecDigest    compute_daily_digest after each day of a history        *)
(*   SpecRecrawl   the validators of a brand's products over its crawls    *)
(*   SpecPacing    the requests of concurrent tasks: permit, then attempts *)
(***************************************************************************)
EXTENDS Integers, Sequences, FiniteSets, TLC

VARIABLES
    \* ---- RateLimiter (SpecLimiter) ----
    clock,          \* time.monotonic(), in ticks of 1/TicksPerSecond s
    locks,          \* _locks: per key, the caller inside the gate (0: free)
    waiters,        \* asyncio.Lock waiter queue per key (FIFO)
    last_request,   \* _last_request: per key, last recorded timestamp
    callPc,         \* per caller: position inside wait_for_host
    callHost,       \* per caller: the host argument
    wake,           \* per caller: earliest time asyncio.sleep returns
    slept,          \* per caller: did this call sleep
    permits,        \* per host: timestamps recorded so far (0, 1, 2 or more)
    prevPermit,     \* per host: the timestamp recorded before the last one
    \* ---- retry_async wrapper (SpecRetry) ----
    retryPc,        \* position inside wrapper
    attempt,        \* the loop variable of `for attempt in range(3)`
    delay,          \* the backoff delay, in seconds
    calls,          \* outcomes of the calls of func made so far, in order
    backoffs,       \* lengths of the sleeps so far, in 1/JitterSteps s
    retryOut,       \* what the wrapper returned or raised
    \* ---- run_daily and the crawl (Spec) ----
    run,            \* which process run this is (1, 2, ...)
    target_date,    \* target_date of the run
    runPc,          \* position inside run_daily
    brandIdx,       \* the brand of the `for brand in brands` loop
    adsIdx,         \* the brand of the ads loop
    ingestPc,       \* position inside ShopifyIngestor.ingest(brand)
    reqUrl,         \* URL of the discovery request being made
    reqInm,         \* its If-None-Match header (0: none)
    handles,        \* handles discovered so far for the brand
    tasks,          \* per (brand, handle): the _fetch_product task
    robot_cache,    \* ShopifyClient._robot_cache, per origin
    robotsResult,   \* per origin: how fetching robots.txt ended
    robotsFetches,  \* per origin: fetches of robots.txt in this run (0, 1, 2 or more)
    sitemapResult,  \* per brand: how fetching the product sitemap ended
    etagMem,        \* ETagCache._data of the running process
    etagFile,       \* contents of .cache/etags.json
    semaphore,      \* free permits of ShopifyClient._semaphore
    prices,         \* prices table: (brand, handle, date) -> writer run
    brandRows,      \* brands table
    adRows,         \* ads_daily table: (brand, date)
    digests,        \* dates with a computed digest
    digestDone,     \* compute_daily_digest ran in this run
    outcome,        \* per brand: how ingest(brand) ended in this run
    failUrl,        \* per brand: the URL whose request raised
    failStatus,     \* per brand: the status of the reply that raised (0: none)
    skipLog,        \* brands logged as "Skipping ..."
    wrote,          \* brands whose _persist_records committed in this run
    consulted,      \* URLs passed to _respect_robots in this run
    sent,           \* URLs requested from the origin in this run
    validator,      \* per URL: validator returned with the last fetched
                    \* version of the document (0: none)
    deviations,     \* how often the environment left the plain course
    \* ---- configuration and storefronts ----
    nbrands,        \* len(load_brands()): the brands of the daily run
    noSitemap,      \* brands whose storefront serves no product sitemap
    \* ---- ShopifyClient._semaphore (SpecSemaphore) ----
    semValue,       \* asyncio.Semaphore._value: free permits
    semWaiters,     \* asyncio.Semaphore._waiters (FIFO)
    reqPc,          \* per request: its position in _request/_fetch_robots
    reqKind,        \* per request under way: "page" (_request) or "robots"
                    \* (_fetch_robots)
    \* ---- ETagCache (SpecCache) ----
    cacheFile,      \* the backing store: what the file at `path` holds
    cacheMem,       \* _data of the live cache
    cacheState,     \* "dict": _data is a dict; "other": _data is another
                    \* JSON value; "none": the constructor raised
    cacheErr,       \* exception raised by the latest operation ("none")
    cacheGot,       \* the latest get: <<url, result>>
    builtOn,        \* kind of the store when the live cache was constructed
    touched,        \* set was called on the live cache
    \* ---- ShopifyIngestor._persist_records (SpecPersist) ----
    db,             \* the tables as a reader sees them
    tx,             \* the tables as the open transaction sees them
    txPc,           \* position of _persist_records ("idle": not running)
    txTodo,         \* product.variants not yet written: their SKUs
    txIds,          \* variant ids _ensure_variant returned so far
    txCur,          \* currency of the crawl result
    txDate,         \* ts_date of the crawl
    crawls,         \* crawl results handed to _persist_records so far
    lastWrite,      \* the latest price upsert of the open transaction
    \* ---- app/logic/signals.py, ranking.py (SpecSignals) ----
    sigOp,          \* the function applied last ("none": none yet)
    sigArgs,        \* its arguments
    sigOut,         \* what it returned
    \* ---- compute_daily_digest (SpecDigest) ----
    digestDate,     \* the date of the latest run_daily (0: none yet)
    digestPc,       \* "ingest": before the ingest loops, "digest": after them
    priceTab,       \* the prices table: one row per variant and date
    adsTab,         \* the ads_daily table: one row per brand and date
    leaders,        \* the leaders table
    feed,           \* what the ingest loops of the latest run stored
    events,         \* changes of the feed from one day to the next, so far
    digest,         \* the DailyDigest of the latest run
    \* ---- the validators over several crawls (SpecRecrawl) ----
    rcCrawl,        \* the crawl of the brand under way (1, 2, ...)
    rcPc,           \* position of ingest(brand): "gather", "persisted", "failed"
    rcTasks,        \* per handle: the _fetch_product task of the crawl
    rcInm,          \* per handle: the If-None-Match its request carried (0: none)
    rcCache,        \* .cache/etags.json and the _data read from it
    rcStored,       \* per handle: the crawls whose document was stored
    \* ---- _request: permit, then the wrapper's attempts (SpecPacing) ----
    rqPc,           \* per task: its _request is at the "limiter", in "backoff" or "done"
    rqAttempt,      \* per task: the loop variable of the wrapper's latest attempt
    rqWake,         \* per task: earliest time the backoff sleep returns
    wireCount,      \* per host: requests sent so far (0, 1, 2 or more)
    wireLast,       \* per host: the time of the latest request sent
    wirePrev        \* per host: the time of the request sent before the latest

limVars == <<clock, locks, waiters, last_request, callPc, callHost, wake,
             slept, permits, prevPermit>>

retryVars == <<retryPc, attempt, delay, calls, backoffs, retryOut>>

runVars == <<run, target_date, runPc, brandIdx, adsIdx, ingestPc, reqUrl,
             reqInm, handles, tasks, robot_cache, robotsResult, robotsFetches,
             sitemapResult, etagMem,
             etagFile, semaphore, prices, brandRows, adRows, digests,
             digestDone, outcome, failUrl, failStatus, skipLog, wrote,
             consulted, sent,
             validator, deviations>>

cfgVars == <<nbrands, noSitemap>>

semVars == <<semValue, semWaiters, reqPc, reqKind>>

cacheVars == <<cacheFile, cacheMem, cacheState, cacheErr, cacheGot, builtOn,
               touched>>

dbVars == <<db, tx, txPc, txTodo, txIds, txCur, txDate, crawls, lastWrite>>

sigVars == <<sigOp, sigArgs, sigOut>>

digVars == <<digestDate, digestPc, priceTab, adsTab, leaders, feed, events, digest>>

rcVars == <<rcCrawl, rcPc, rcTasks, rcInm, rcCache, rcStored>>

paceVars == <<rqPc, rqAttempt, rqWake, wireCount, wireLast, wirePrev>>

vars == <<limVars, retryVars, runVars, cfgVars, semVars, cacheVars, dbVars, sigVars, digVars, rcVars, paceVars>>

\* what the steps of one component leave alone
besideLimiter == <<retryVars, runVars, cfgVars, semVars, cacheVars, dbVars, sigVars, digVars, rcVars, paceVars>>
besideRetry == <<limVars, runVars, cfgVars, semVars, cacheVars, dbVars, sigVars, digVars, rcVars, paceVars>>
besideRun == <<limVars, retryVars, cfgVars, semVars, cacheVars, dbVars, sigVars, digVars, rcVars, paceVars>>
besideSemaphore == <<limVars, retryVars, runVars, cfgVars, cacheVars, dbVars, sigVars, digVars, rcVars, paceVars>>
besideCache == <<limVars, retryVars, runVars, cfgVars, semVars, dbVars, sigVars, digVars, rcVars, paceVars>>
besidePersist == <<limVars, retryVars, runVars, cfgVars, semVars, cacheVars, sigVars, digVars, rcVars, paceVars>>
besideSignals == <<limVars, retryVars, runVars, cfgVars, semVars, cacheVars, dbVars, digVars, rcVars, paceVars>>
besideDigest == <<limVars, retryVars, runVars, cfgVars, semVars, cacheVars, dbVars, sigVars, rcVars, paceVars>>
besideRecrawl == <<limVars, retryVars, runVars, cfgVars, semVars, cacheVars, dbVars, sigVars, digVars, paceVars>>
besidePacing == <<limVars, retryVars, runVars, cfgVars, semVars, cacheVars, dbVars, sigVars, digVars, rcVars>>

\* the record of the fetches of robots.txt and of the sitemap
crawlLog == <<robotsFetches, sitemapResult>>

-----------------------------------------------------------------------------
(* RateLimiter                                                             *)

MaxCallers == 2
MaxHosts == 2
MaxClock == 4

\* rate = 1.5 requests per second, written as RateNum / RateDen
RateNum == 3
RateDen == 2
TicksPerSecond == 3

Callers == 1..MaxCallers
Hosts == 1..MaxHosts

\* min_interval = 1.0 / self.rate, in ticks
min_interval == (TicksPerSecond * RateDen) \div RateNum

\* one gate and one timestamp for all hosts
HostKeyShared(host) == 1

\* self._locks[host], self._last_request[host]: both dicts are keyed by host
HostKey(host) == host

\* no pacing at all
SleepTimeNone(now, last) == 0

\* elapsed = now - last; sleep min_interval - elapsed when elapsed < min_interval
SleepTime(now, last) ==
    LET elapsed == now - last
    IN  IF elapsed < min_interval THEN min_interval - elapsed ELSE 0

InitLimiter ==
    /\ clock \in 0..min_interval
    /\ locks = [h \in Hosts |-> 0]
    /\ waiters = [h \in Hosts |-> <<>>]
    /\ last_request = [h \in Hosts |-> 0]
    /\ callPc = [c \in Callers |-> "idle"]
    /\ callHost = [c \in Callers |-> 1]
    /\ wake = [c \in Callers |-> 0]
    /\ slept = [c \in Callers |-> FALSE]
    /\ permits = [h \in Hosts |-> 0]
    /\ prevPermit = [h \in Hosts |-> 0]

\* time passes
Tick ==
    /\ clock < MaxClock
    /\ clock' = clock + 1
    /\ UNCHANGED <<locks, waiters, last_request, callPc, callHost, wake,
                   slept, permits, prevPermit>>
    /\ UNCHANGED besideLimiter

\* wait_for_host(host) is called: `async with lock` takes a free gate at
\* once, otherwise the caller queues behind the holder
WaitForHost(c, host) ==
    /\ callPc[c] \in {"idle", "returned"}
    /\ callHost' = [callHost EXCEPT ![c] = host]
    /\ slept' = [slept EXCEPT ![c] = FALSE]
    /\ LET k == HostKey(host)
       IN  IF locks[k] = 0 /\ waiters[k] = <<>>
           THEN /\ locks' = [locks EXCEPT ![k] = c]
                /\ callPc' = [callPc EXCEPT ![c] = "locked"]
                /\ UNCHANGED waiters
           ELSE /\ waiters' = [waiters EXCEPT ![k] = Append(@, c)]
                /\ callPc' = [callPc EXCEPT ![c] = "blocked"]
                /\ UNCHANGED locks
    /\ UNCHANGED <<clock, last_request, wake, permits, prevPermit>>
    /\ UNCHANGED besideLimiter

\* leaving `async with lock`: the gate goes to the first waiter, if any
Release(k) ==
    IF waiters[k] = <<>>
    THEN [lk |-> [locks EXCEPT ![k] = 0], wt |-> waiters, woken |-> 0]
    ELSE [lk |-> [locks EXCEPT ![k] = Head(waiters[k])],
          wt |-> [waiters EXCEPT ![k] = Tail(@)],
          woken |-> Head(waiters[k])]

\* self._last_request[host] = time.monotonic(), then the gate is released
RecordAndRelease(c) ==
    LET host == callHost[c]
        k == HostKey(host)
        r == Release(k)
    IN  /\ last_request' = [last_request EXCEPT ![k] = clock]
        /\ prevPermit' = [prevPermit EXCEPT ![host] = last_request[k]]
        /\ permits' = [permits EXCEPT ![host] = IF @ < 2 THEN @ + 1 ELSE 2]
        /\ locks' = r.lk
        /\ waiters' = r.wt
        /\ wake' = [wake EXCEPT ![c] = 0]
        /\ callPc' = [x \in Callers |->
                        IF x = c THEN "returned"
                        ELSE IF x = r.woken THEN "locked"
                        ELSE callPc[x]]

\* inside the gate: read the clock, sleep the remainder or record at once
Enter(c) ==
    /\ callPc[c] = "locked"
    /\ LET d == SleepTime(clock, last_request[HostKey(callHost[c])])
       IN  IF d > 0
           THEN /\ wake' = [wake EXCEPT ![c] = clock + d]
                /\ slept' = [slept EXCEPT ![c] = TRUE]
                /\ callPc' = [callPc EXCEPT ![c] = "sleeping"]
                /\ UNCHANGED <<locks, waiters, last_request, permits, prevPermit>>
           ELSE /\ RecordAndRelease(c)
                /\ UNCHANGED slept
    /\ UNCHANGED <<clock, callHost>>
    /\ UNCHANGED besideLimiter

\* asyncio.sleep returns, no earlier than asked
WakeUp(c) ==
    /\ callPc[c] = "sleeping"
    /\ clock >= wake[c]
    /\ RecordAndRelease(c)
    /\ UNCHANGED <<clock, callHost, slept>>
    /\ UNCHANGED besideLimiter

NextLimiter ==
    \/ Tick
    \/ \E c \in Callers, host \in Hosts : WaitForHost(c, host)
    \/ \E c \in Callers : Enter(c)
    \/ \E c \in Callers : WakeUp(c)

-----------------------------------------------------------------------------
(* retry_async                                                             *)

\* range(3)
RetryAttempts == 3

\* resolution of random.random() in [0, 1)
JitterSteps == 2

\* Failure classes a wrapped call can raise.  OSError stands for the builtin
\* family (ConnectionError, TimeoutError); httpx.ConnectError and
\* httpx.TimeoutException are httpx.TransportError subclasses, which derive
\* from httpx.HTTPError and Exception, not from OSError; ValueError stands
\* for any other exception.
ExcKinds == {"OSError", "asyncio.TimeoutError", "httpx.ConnectError",
             "httpx.TimeoutException", "ValueError"}

\* Status codes of the responses a wrapped network call can return; an
\* error status is a returned response, not an exception, at this layer.
Statuses == {200, 304, 403, 404, 500}

CallOutcomes ==
    [ok : {TRUE}, val : Statuses] \cup [ok : {FALSE}, val : ExcKinds]

NoOutcome == [ok |-> FALSE, val |-> "none", at |-> 0]

\* every exception is retried
IsRetryExceptionAny(kind) == TRUE

\* RETRY_EXCEPTIONS = (OSError, asyncio.TimeoutError), as `except` matches it
IsRetryException(kind) == kind \in {"OSError", "asyncio.TimeoutError"}

\* the re-raise test looks one attempt too far
IsLastAttemptLate(n) == n = 3

\* if attempt == 2: raise
IsLastAttempt(n) == n = 2

InitRetry ==
    /\ retryPc = "idle"
    /\ attempt = 0
    /\ delay = 1
    /\ calls = <<>>
    /\ backoffs = <<>>
    /\ retryOut = NoOutcome

\* wrapper(*args) is entered: delay = 1.0, first loop iteration
RetryCall ==
    /\ retryPc = "idle"
    /\ retryPc' = "calling"
    /\ attempt' = 0
    /\ delay' = 1
    /\ UNCHANGED <<calls, backoffs, retryOut>>
    /\ UNCHANGED besideRetry

\* one `await func(...)` inside the try: return its result, or handle the
\* exception: retryable and not the last attempt -> asyncio.sleep(delay +
\* random.random()); retryable on the last attempt -> re-raise; any other
\* exception leaves the wrapper
RetryAttempt(out, jitter) ==
    /\ retryPc = "calling"
    /\ LET o == [ok |-> out.ok, val |-> out.val, at |-> Len(calls) + 1]
       IN  /\ calls' = Append(calls, o)
           /\ IF out.ok
              THEN /\ retryPc' = "returned"
                   /\ retryOut' = o
                   /\ UNCHANGED backoffs
              ELSE IF IsRetryException(out.val) /\ ~IsLastAttempt(attempt)
              THEN /\ retryPc' = "backoff"
                   /\ backoffs' = Append(backoffs, delay * JitterSteps + jitter)
                   /\ UNCHANGED retryOut
              ELSE /\ retryPc' = "raised"
                   /\ retryOut' = o
                   /\ UNCHANGED backoffs
    /\ UNCHANGED <<attempt, delay>>
    /\ UNCHANGED besideRetry

\* the sleep is over: delay *= 2 and the loop
\* goes on; a loop that runs out of iterations makes wrapper return None
RetryBackoff ==
    /\ retryPc = "backoff"
    /\ delay' = delay * 2
    /\ attempt' = attempt + 1
    /\ IF attempt + 1 < RetryAttempts
       THEN /\ retryPc' = "calling"
            /\ UNCHANGED retryOut
       ELSE /\ retryPc' = "returned"
            /\ retryOut' = [ok |-> TRUE, val |-> "None", at |-> 0]
    /\ UNCHANGED <<calls, backoffs>>
    /\ UNCHANGED besideRetry

NextRetry ==
    \/ RetryCall
    \/ \E out \in CallOutcomes, jitter \in 0..(JitterSteps - 1) :
          RetryAttempt(out, jitter)
    \/ RetryBackoff

-----------------------------------------------------------------------------

(* The crawl: ShopifyClient, ETagCache, ShopifyIngestor                    *)

MaxBrands == 2
MaxHandles == 2
MaxRuns == 2
\* an origin's catalog listing shows a next-page marker on fewer pages
MaxCatalogPages == 2
\* The plain course of a run: robots.txt is served and allows everything,
\* every reply is a 200 carrying a validator, the sitemap lists every handle,
\* the database commits, the ads are fetched, and runs are a day apart.
\* The environment leaves it at most this often.
MaxDeviations == 1

\* asyncio.Semaphore(concurrency), concurrency: int = 5
Concurrency == 5

\* for page in range(1, 11)
LastPage == 10

Brands == 1..MaxBrands
Handles == 1..MaxHandles
\* the catalog pages a crawl can ask for: one past the last next marker,
\* and never more than range(1, 11) has
CatalogPages == IF MaxCatalogPages < LastPage THEN MaxCatalogPages ELSE LastPage
\* what a sitemap or a catalog page can list: the first k handles
Listings == {1..k : k \in 0..MaxHandles}
Dates == 1..MaxRuns

\* URLs of a brand's origin: <<brand, kind, n>>
RobotsUrl(b) == <<b, "robots", 0>>
SitemapUrl(b) == <<b, "sitemap", 0>>
CollectionsUrl(b, page) == <<b, "collections", page>>
ProductUrl(b, h) == <<b, "product", h>>

Urls ==
    {SitemapUrl(b) : b \in Brands}
        \cup {CollectionsUrl(b, pg) : b \in Brands, pg \in 1..CatalogPages}
        \cup {ProductUrl(b, h) : b \in Brands, h \in Handles}

NoUrl == <<0, "none", 0>>

\* base = scheme://netloc of the URL: the brand's domain
Origin(url) == url[1]

\* urlparse(url).path: the query (?page=N) is not part of it
Path(url) == IF url[2] = "collections" THEN <<"collections", 0>>
             ELSE <<url[2], url[3]>>

\* robots.txt files an origin may serve, as the set of paths they disallow
\* for the agent MerchwireBot: nothing, the sitemap, the catalog listing,
\* /products/ as a whole, one product document
RobotsFiles ==
    { {}, {Path(SitemapUrl(1))}, {Path(CollectionsUrl(1, 1))},
      {Path(ProductUrl(1, h)) : h \in Handles}, {Path(ProductUrl(1, 1))} }

NoParser == [cached |-> FALSE, disallow |-> {}]

\* the parsed rules are not kept for the origin
ParsedRobotsForgotten(file) == NoParser

\* parser.parse(text.splitlines()); self._robot_cache[base] = parser
ParsedRobots(file) == [cached |-> TRUE, disallow |-> file]

\* parser.parse("User-agent: *\nAllow: /".splitlines())
PermissiveRobots == [cached |-> TRUE, disallow |-> {}]

\* the permission check is skipped
can_fetchAlways(parser, path) == TRUE

\* parser.can_fetch("MerchwireBot", parsed.path)
can_fetch(parser, path) == path \notin parser.disallow

\* what httpx.AsyncClient.request/get produces: a response with a status,
\* or one of the httpx.TransportError failures
SessionOutcomes ==
    {o \in CallOutcomes :
        o.ok \/ o.val \in {"httpx.ConnectError", "httpx.TimeoutException"}}

\* response.raise_for_status(), and the HTTPStatusError that _request raises
\* itself on a 304: the exception a session outcome ends in ("none": a
\* usable response)
ExcOf(o) == IF ~o.ok THEN o.val
            ELSE IF o.val = 200 THEN "none"
            ELSE "httpx.HTTPStatusError"

\* response.status_code (0: no response)
StatusOf(o) == IF o.ok THEN o.val ELSE 0

\* only error statuses are caught
IsHTTPErrorStatusOnly(exc) == exc = "httpx.HTTPStatusError"

\* `except httpx.HTTPError`: HTTPStatusError and the TransportError family
IsHTTPError(exc) ==
    exc \in {"httpx.HTTPStatusError", "httpx.ConnectError",
             "httpx.TimeoutException"}

\* no brand-level handler at all
HandledByRunDailyNone(exc) == FALSE

\* run_daily: `except PermissionError` around shopify.ingest(brand)
HandledByRunDaily(exc) == exc = "PermissionError"

\* the cache file is never read back
ETagCacheLoadEmpty(file) == [u \in Urls |-> 0]

\* ETagCache.__init__: _data = json.loads(path.read_text()); a missing
\* file leaves _data empty (every URL absent)
ETagCacheLoad(file) == [u \in DOMAIN file |-> file[u]]

\* ETagCache.get
ETagCacheGet(data, url) == data[url]

\* ETagCache.set: an absent etag pops the entry from _data and returns
\* before the file is written; otherwise _data is updated and dumped
ETagCacheSet(data, file, url, etag) ==
    IF etag = 0
    THEN [data |-> [data EXCEPT ![url] = 0], file |-> file]
    ELSE LET d == [data EXCEPT ![url] = etag]
         IN  [data |-> d, file |-> d]

\* _request after the response arrived: a 304 raises before the ETag header
\* is looked at; any other response stores a non-empty ETag header
StoreETag(data, file, url, o, etag) ==
    IF o.ok /\ o.val # 304 /\ etag # 0
    THEN ETagCacheSet(data, file, url, etag)
    ELSE [data |-> data, file |-> file]

\* a not-modified reply is taken for a fetched document
ProductResultNo304(o) ==
    IF ~o.ok THEN "raise"
    ELSE IF o.val \in {200, 304} THEN "ok"
    ELSE IF o.val \in {403, 404} THEN "skip40x"
    ELSE "raise"

\* an unavailable product fails its task
ProductResult40xRaises(o) ==
    IF ~o.ok THEN "raise"
    ELSE IF o.val = 200 THEN "ok"
    ELSE IF o.val = 304 THEN "skip304"
    ELSE "raise"

\* _fetch_product: what becomes of the task for one reply
ProductResult(o) ==
    IF ~o.ok THEN "raise"
    ELSE IF o.val = 200 THEN "ok"
    ELSE IF o.val = 304 THEN "skip304"
    ELSE IF o.val \in {403, 404} THEN "skip40x"
    ELSE "raise"

NoTask == [st |-> "idle", inm |-> 0, status |-> 0]

\* replies an origin can give to a request carrying If-None-Match inm:
\* not-modified answers conditional requests only
Replies(inm) == {o \in SessionOutcomes : (o.ok /\ o.val = 304) => inm # 0}

\* the validator a reply carries: none, or the one of the document's
\* current version (one version per run)
ReplyTags(o) == IF o.ok /\ o.val # 304 THEN {0, run} ELSE {0}

\* the validator the origin returned with the last fetched version of a
\* document: a fetch renews it, not-modified keeps it, a failure voids it
NextValidator(old, o, etag) ==
    IF o.ok /\ o.val = 304 THEN old
    ELSE IF ExcOf(o) = "none" THEN etag
    ELSE 0

InitRun ==
    /\ run = 1
    /\ target_date = 1
    /\ runPc = "brands"
    /\ brandIdx = 1
    /\ adsIdx = 1
    /\ ingestPc = "idle"
    /\ reqUrl = NoUrl
    /\ reqInm = 0
    /\ handles = {}
    /\ tasks = [b \in Brands, h \in Handles |-> NoTask]
    /\ robot_cache = [b \in Brands |-> NoParser]
    /\ robotsResult = [b \in Brands |-> "unfetched"]
    /\ robotsFetches = [b \in Brands |-> 0]
    /\ sitemapResult = [b \in Brands |-> "unfetched"]
    /\ etagFile = [u \in Urls |-> 0]
    /\ etagMem = ETagCacheLoad(etagFile)
    /\ semaphore = Concurrency
    /\ prices = [b \in Brands, h \in Handles, d \in Dates |-> 0]
    /\ brandRows = {}
    /\ adRows = {}
    /\ digests = {}
    /\ digestDone = FALSE
    /\ outcome = [b \in Brands |-> "pending"]
    /\ failUrl = [b \in Brands |-> NoUrl]
    /\ failStatus = [b \in Brands |-> 0]
    /\ skipLog = {}
    /\ wrote = {}
    /\ consulted = {}
    /\ sent = {}
    /\ validator = [u \in Urls |-> 0]
    /\ deviations = 0

\* the plain reply of an origin: the document, with the validator of its
\* current version
PlainReply(o, etag) == ExcOf(o) = "none" /\ etag = run

\* a storefront without a product sitemap answers its URL with 404
NotServed(url) == url[2] = "sitemap" /\ Origin(url) \in noSitemap

\* the environment takes the plain course (plain) or spends a deviation
Deviate(plain) ==
    IF plain THEN UNCHANGED deviations
    ELSE /\ deviations < MaxDeviations
         /\ deviations' = deviations + 1

\* the loop `for brand in brands` moves on to the next brand
NextBrand ==
    /\ brandIdx' = brandIdx + 1
    /\ ingestPc' = "idle"
    /\ reqUrl' = NoUrl
    /\ reqInm' = 0
    /\ handles' = {}
    /\ runPc' = IF brandIdx + 1 > nbrands THEN "ads" ELSE "brands"

\* ingest(brand) goes on: its position, the discovery request, the handles,
\* the tasks and the semaphore as the step leaves them
Goto(pc, url, inm, hs, tk, sem) ==
    /\ ingestPc' = pc
    /\ reqUrl' = url
    /\ reqInm' = inm
    /\ handles' = hs
    /\ tasks' = tk
    /\ semaphore' = sem
    /\ UNCHANGED <<runPc, brandIdx, outcome, failUrl, failStatus, skipLog>>

\* an exception leaves shopify.ingest(brand): run_daily logs a skip and goes
\* on when its handler matches; otherwise the finally block closes the
\* clients and the exception leaves run_daily, which ends every task.
\* tk, sem: the tasks and the semaphore as the step leaves them.
Leave(b, exc, url, status, tk, sem) ==
    /\ outcome' = [outcome EXCEPT ![b] = exc]
    /\ failUrl' = [failUrl EXCEPT ![b] = url]
    /\ failStatus' = [failStatus EXCEPT ![b] = status]
    /\ IF HandledByRunDaily(exc)
       THEN /\ skipLog' = skipLog \cup {b}
            /\ NextBrand
            /\ tasks' = tk
            /\ semaphore' = sem
       ELSE /\ runPc' = "aborted"
            /\ ingestPc' = "idle"
            /\ reqUrl' = NoUrl
            /\ reqInm' = 0
            /\ handles' = {}
            /\ tasks' = [x \in Brands, h \in Handles |-> NoTask]
            /\ semaphore' = Concurrency
            /\ UNCHANGED <<brandIdx, skipLog>>

\* await shopify.ingest(brand): fetch_products starts discovery with the
\* product sitemap
StartIngest ==
    /\ runPc = "brands"
    /\ ingestPc = "idle"
    /\ brandIdx <= nbrands
    /\ Goto("request", SitemapUrl(brandIdx), 0, {}, tasks, semaphore)
    /\ UNCHANGED <<run, target_date, adsIdx, robot_cache, robotsResult,
                   etagMem, etagFile, prices, brandRows, adRows, digests,
                   digestDone, wrote, consulted, sent, validator>>
    /\ UNCHANGED deviations
    /\ UNCHANGED crawlLog
    /\ UNCHANGED besideRun

\* _request(url) of a discovery request, up to the point where it waits:
\* _respect_robots fetches robots.txt when the origin has no cached parser,
\* raises PermissionError when the path is denied; otherwise the cached
\* validator becomes the If-None-Match header and the request goes out
\* under the semaphore
Request ==
    /\ runPc = "brands"
    /\ ingestPc = "request"
    /\ LET b == Origin(reqUrl)
       IN  IF ~robot_cache[b].cached
           THEN /\ semaphore > 0
                /\ Goto("robots", reqUrl, 0, handles, tasks, semaphore - 1)
                /\ UNCHANGED <<consulted, sent>>
           ELSE IF ~can_fetch(robot_cache[b], Path(reqUrl))
           THEN /\ consulted' = consulted \cup {reqUrl}
                /\ Leave(b, "PermissionError", reqUrl, 0, tasks, semaphore)
                /\ UNCHANGED sent
           ELSE /\ semaphore > 0
                /\ consulted' = consulted \cup {reqUrl}
                /\ sent' = sent \cup {reqUrl}
                /\ Goto("inflight", reqUrl, ETagCacheGet(etagMem, reqUrl),
                        handles, tasks, semaphore - 1)
    /\ UNCHANGED <<run, target_date, adsIdx, robot_cache, robotsResult,
                   etagMem, etagFile, prices, brandRows, adRows, digests,
                   digestDone, wrote, validator>>
    /\ UNCHANGED deviations
    /\ robotsFetches' =
          IF robot_cache[Origin(reqUrl)].cached THEN robotsFetches
          ELSE [robotsFetches EXCEPT ![Origin(reqUrl)] = IF @ < 2 THEN @ + 1 ELSE 2]
    /\ UNCHANGED sitemapResult
    /\ UNCHANGED besideRun

\* _fetch_robots returns or raises: the parsed file is cached, or the
\* permissive parser when the fetch failed with an httpx.HTTPError; any
\* other exception leaves the crawl
RobotsReply ==
    /\ runPc = "brands"
    /\ ingestPc = "robots"
    /\ \E o \in SessionOutcomes, file \in RobotsFiles :
       /\ ~(o.ok /\ o.val = 304)
       /\ ExcOf(o) # "none" => file = {}
       /\ Deviate(ExcOf(o) = "none" /\ file = {})
       /\ LET b == Origin(reqUrl)
              exc == ExcOf(o)
          IN  /\ robotsResult' = [robotsResult EXCEPT ![b] = exc]
              /\ IF exc = "none"
                 THEN /\ robot_cache' = [robot_cache EXCEPT ![b] = ParsedRobots(file)]
                      /\ Goto("request", reqUrl, 0, handles, tasks, semaphore + 1)
                 ELSE IF IsHTTPError(exc)
                 THEN /\ robot_cache' = [robot_cache EXCEPT ![b] = PermissiveRobots]
                      /\ Goto("request", reqUrl, 0, handles, tasks, semaphore + 1)
                 ELSE /\ Leave(b, exc, RobotsUrl(b), StatusOf(o), tasks, semaphore + 1)
                      /\ UNCHANGED robot_cache
    /\ UNCHANGED <<run, target_date, adsIdx, etagMem, etagFile, prices,
                   brandRows, adRows, digests, digestDone, wrote, consulted,
                   sent, validator>>
    /\ UNCHANGED crawlLog
    /\ UNCHANGED besideRun

\* the reply to a discovery request reaches _request and its caller.
\* Sitemap (_discover_product_handles): the handles of the document, or the
\* fallback to the catalog listing on any httpx.HTTPError.  Catalog page
\* (_discover_via_collections): handles accumulate, the next page follows
\* while the page shows a next marker, a 404 ends the loop, any other
\* failure leaves the crawl.
DiscoveryReply ==
    /\ runPc = "brands"
    /\ ingestPc = "inflight"
    /\ \E o \in Replies(reqInm), body \in Listings, more \in BOOLEAN :
       \E etag \in ReplyTags(o) :
       /\ ExcOf(o) # "none" => (body = Handles /\ ~more)
       /\ IF NotServed(reqUrl)
          THEN /\ o = [ok |-> TRUE, val |-> 404] /\ etag = 0
               /\ UNCHANGED deviations
          ELSE Deviate(PlainReply(o, etag) /\ body = Handles /\ ~more)
       /\ LET b == Origin(reqUrl)
              pg == reqUrl[3]
              exc == ExcOf(o)
              st == StoreETag(etagMem, etagFile, reqUrl, o, etag)
              sem == semaphore + 1
          IN  /\ etagMem' = st.data
              /\ etagFile' = st.file
              /\ validator' = [validator EXCEPT ![reqUrl] =
                                 NextValidator(@, o, etag)]
              /\ sitemapResult' = IF reqUrl[2] = "sitemap"
                                   THEN [sitemapResult EXCEPT ![b] = exc]
                                   ELSE sitemapResult
              /\ IF reqUrl[2] = "sitemap"
                 THEN /\ ~more
                      /\ IF exc = "none"
                         THEN Goto("gather_start", NoUrl, 0, body, tasks, sem)
                         ELSE IF IsHTTPError(exc)
                         THEN Goto("request", CollectionsUrl(b, 1), 0, {}, tasks, sem)
                         ELSE Leave(b, exc, reqUrl, StatusOf(o), tasks, sem)
                 ELSE /\ more => pg < MaxCatalogPages
                      /\ IF exc = "none"
                         THEN IF more /\ pg < LastPage
                              THEN Goto("request", CollectionsUrl(b, pg + 1), 0,
                                        handles \cup body, tasks, sem)
                              ELSE Goto("gather_start", NoUrl, 0,
                                        handles \cup body, tasks, sem)
                         ELSE IF exc = "httpx.HTTPStatusError" /\ o.val = 404
                         THEN Goto("gather_start", NoUrl, 0, handles, tasks, sem)
                         ELSE Leave(b, exc, reqUrl, StatusOf(o), tasks, sem)
    /\ UNCHANGED <<run, target_date, adsIdx, robot_cache, robotsResult,
                   prices, brandRows, adRows, digests, digestDone, wrote,
                   consulted, sent>>
    /\ UNCHANGED robotsFetches
    /\ UNCHANGED besideRun

SetMin(S) == CHOOSE x \in S : \A y \in S : x <= y

\* asyncio.gather(*(_fetch_product(base_url, handle) for handle in handles)):
\* every task runs, in sorted handle order, up to its first wait before the
\* gather is resumed.  With the parser cached, _respect_robots does not wait:
\* a task for a denied path raises PermissionError at once and the others
\* read their validator and go out.  The first exception leaves the gather;
\* the tasks already started are not cancelled by it.
StartGather ==
    /\ runPc = "brands"
    /\ ingestPc = "gather_start"
    /\ LET b == brandIdx
           allowed == {h \in handles :
                         can_fetch(robot_cache[b], Path(ProductUrl(b, h)))}
           denied == handles \ allowed
           sem == semaphore - Cardinality(allowed)
           tk == [x \in Brands, h \in Handles |->
                    IF x = b /\ h \in allowed
                    THEN [st |-> "inflight",
                          inm |-> ETagCacheGet(etagMem, ProductUrl(b, h)),
                          status |-> 0]
                    ELSE tasks[x, h]]
       IN  /\ sem >= 0
           /\ consulted' = consulted \cup {ProductUrl(b, h) : h \in handles}
           /\ sent' = sent \cup {ProductUrl(b, h) : h \in allowed}
           /\ IF denied # {}
              THEN Leave(b, "PermissionError", ProductUrl(b, SetMin(denied)), 0,
                         tk, sem)
              ELSE Goto("gather", NoUrl, 0, handles, tk, sem)
    /\ UNCHANGED <<run, target_date, adsIdx, robot_cache, robotsResult,
                   etagMem, etagFile, prices, brandRows, adRows, digests,
                   digestDone, wrote, validator>>
    /\ UNCHANGED deviations
    /\ UNCHANGED crawlLog
    /\ UNCHANGED besideRun

\* the reply to a product request reaches _request and _fetch_product: the
\* product record, None for a 304 or a 403/404, or an exception, which
\* leaves the gather when fetch_products still awaits it
TaskReply(b, h) ==
    /\ runPc \in {"brands", "ads"}
    /\ tasks[b, h].st = "inflight"
    /\ \E o \in Replies(tasks[b, h].inm) : \E etag \in ReplyTags(o) :
       /\ Deviate(PlainReply(o, etag))
       /\ LET url == ProductUrl(b, h)
              res == ProductResult(o)
              st == StoreETag(etagMem, etagFile, url, o, etag)
              tk == [tasks EXCEPT ![b, h] =
                       [st |-> IF res = "raise" THEN "failed" ELSE res,
                        inm |-> @.inm,
                        status |-> StatusOf(o)]]
              awaited == runPc = "brands" /\ ingestPc = "gather" /\ brandIdx = b
          IN  /\ etagMem' = st.data
              /\ etagFile' = st.file
              /\ validator' = [validator EXCEPT ![url] =
                                 NextValidator(@, o, etag)]
              /\ IF res = "raise" /\ awaited
                 THEN Leave(b, ExcOf(o), url, StatusOf(o), tk, semaphore + 1)
                 ELSE Goto(ingestPc, reqUrl, reqInm, handles, tk, semaphore + 1)
    /\ UNCHANGED <<run, target_date, adsIdx, robot_cache, robotsResult,
                   prices, brandRows, adRows, digests, digestDone, wrote,
                   consulted, sent>>
    /\ UNCHANGED crawlLog
    /\ UNCHANGED besideRun

\* the gather returned: records are the tasks that produced a product, and
\* _persist_records writes them in one transaction (engine.begin()): brand
\* row, and one price row per record at (product, ts_date), inserted or
\* overwritten; a database error rolls back and leaves ingest
Persist(dbok) ==
    /\ runPc = "brands"
    /\ ingestPc = "gather"
    /\ \A h \in handles : tasks[brandIdx, h].st \in {"ok", "skip304", "skip40x"}
    /\ LET b == brandIdx
           records == {h \in handles : tasks[b, h].st = "ok"}
       IN  IF dbok
           THEN /\ brandRows' = brandRows \cup {b}
                /\ prices' = [x \in Brands, h \in Handles, d \in Dates |->
                                IF x = b /\ h \in records /\ d = target_date
                                THEN run ELSE prices[x, h, d]]
                /\ wrote' = wrote \cup {b}
                /\ outcome' = [outcome EXCEPT ![b] = "persisted"]
                /\ NextBrand
                /\ UNCHANGED <<tasks, semaphore, failUrl, failStatus, skipLog>>
           ELSE /\ Leave(b, "DBError", NoUrl, 0, tasks, semaphore)
                /\ UNCHANGED <<brandRows, prices, wrote>>
    /\ UNCHANGED <<run, target_date, adsIdx, robot_cache, robotsResult,
                   etagMem, etagFile, adRows, digests, digestDone, consulted,
                   sent, validator>>
    /\ Deviate(dbok)
    /\ UNCHANGED crawlLog
    /\ UNCHANGED besideRun

\* meta_ingestor.ingest(brand) inside `try ... except Exception`: the brand
\* is skipped (no facebook_page_id), its ad row is upserted, or the failure
\* is logged; the loop goes on in every case
AdsIngest(res) ==
    /\ runPc = "ads"
    /\ adsIdx <= nbrands
    /\ adsIdx' = adsIdx + 1
    /\ IF res = "ok"
       THEN /\ adRows' = adRows \cup {<<adsIdx, target_date>>}
            /\ brandRows' = brandRows \cup {adsIdx}
       ELSE UNCHANGED <<adRows, brandRows>>
    /\ UNCHANGED <<run, target_date, runPc, brandIdx, ingestPc, reqUrl, reqInm,
                   handles, tasks, robot_cache, robotsResult, etagMem,
                   etagFile, semaphore, prices, digests, digestDone, outcome,
                   failUrl, failStatus, skipLog, wrote, consulted, sent,
                   validator>>
    /\ Deviate(res = "ok")
    /\ UNCHANGED crawlLog
    /\ UNCHANGED besideRun

\* the finally block: the clients are closed, after the ads loop or right
\* after the brand loop when there is no META_ADS_TOKEN
Close ==
    /\ runPc = "ads"
    /\ adsIdx = 1 \/ adsIdx > nbrands
    /\ runPc' = "digest"
    /\ tasks' = [b \in Brands, h \in Handles |->
                   IF tasks[b, h].st = "inflight" THEN NoTask ELSE tasks[b, h]]
    /\ semaphore' = Concurrency
    /\ UNCHANGED <<run, target_date, brandIdx, adsIdx, ingestPc, reqUrl, reqInm,
                   handles, robot_cache, robotsResult, etagMem, etagFile,
                   prices, brandRows, adRows, digests, digestDone, outcome,
                   failUrl, failStatus, skipLog, wrote, consulted, sent,
                   validator>>
    /\ Deviate(adsIdx > nbrands)
    /\ UNCHANGED crawlLog
    /\ UNCHANGED besideRun

\* digest = compute_daily_digest(engine, target_date);
\* persist_leaderboard(engine, digest.leaderboard, target_date)
Digest ==
    /\ runPc = "digest"
    /\ runPc' = "done"
    /\ digests' = digests \cup {target_date}
    /\ digestDone' = TRUE
    /\ UNCHANGED <<run, target_date, brandIdx, adsIdx, ingestPc, reqUrl, reqInm,
                   handles, tasks, robot_cache, robotsResult, etagMem,
                   etagFile, semaphore, prices, brandRows, adRows, outcome,
                   failUrl, failStatus, skipLog, wrote, consulted, sent,
                   validator>>
    /\ UNCHANGED deviations
    /\ UNCHANGED crawlLog
    /\ UNCHANGED besideRun

\* the next scheduled run, the same day or the next: a new process, with a
\* new ShopifyClient (no parsers, a full semaphore) and an ETagCache read
\* from the file; the database stays
NewRun(d) ==
    /\ runPc \in {"done", "aborted"}
    /\ run < MaxRuns
    /\ d \in {target_date, target_date + 1} \cap Dates
    /\ run' = run + 1
    /\ target_date' = d
    /\ runPc' = "brands"
    /\ brandIdx' = 1
    /\ adsIdx' = 1
    /\ ingestPc' = "idle"
    /\ reqUrl' = NoUrl
    /\ reqInm' = 0
    /\ handles' = {}
    /\ tasks' = [b \in Brands, h \in Handles |-> NoTask]
    /\ robot_cache' = [b \in Brands |-> NoParser]
    /\ robotsResult' = [b \in Brands |-> "unfetched"]
    /\ robotsFetches' = [b \in Brands |-> 0]
    /\ sitemapResult' = [b \in Brands |-> "unfetched"]
    /\ etagMem' = ETagCacheLoad(etagFile)
    /\ semaphore' = Concurrency
    /\ digestDone' = FALSE
    /\ outcome' = [b \in Brands |-> "pending"]
    /\ failUrl' = [b \in Brands |-> NoUrl]
    /\ failStatus' = [b \in Brands |-> 0]
    /\ skipLog' = {}
    /\ wrote' = {}
    /\ consulted' = {}
    /\ sent' = {}
    /\ UNCHANGED <<etagFile, prices, brandRows, adRows, digests, validator>>
    /\ Deviate(d = target_date + 1)
    /\ UNCHANGED besideRun

Next ==
    \/ StartIngest
    \/ Request
    \/ RobotsReply
    \/ DiscoveryReply
    \/ StartGather
    \/ \E b \in Brands, h \in Handles : TaskReply(b, h)
    \/ \E dbok \in BOOLEAN : Persist(dbok)
    \/ \E res \in {"skipped", "ok", "failed"} : AdsIngest(res)
    \/ Close
    \/ Digest
    \/ \E d \in Dates : NewRun(d)

-----------------------------------------------------------------------------
(* ShopifyClient._semaphore: the requests of one crawler                   *)

\* requests one crawler is asked to make at the same time
MaxRequests == 6

Requests == 1..MaxRequests

\* the permit is always taken
SemLockedNever(value, queue) == FALSE

\* asyncio.Semaphore.locked(): no free permit, or somebody queues already
SemLocked(value, queue) == value = 0 \/ queue # <<>>

\* requests inside `async with self._semaphore`
Holding == {t \in Requests : reqPc[t] \in {"limiter", "calling", "backoff"}}

InitSemaphore ==
    /\ semValue = Concurrency
    /\ semWaiters = <<>>
    /\ reqPc = [t \in Requests |-> "idle"]
    /\ reqKind = [t \in Requests |-> "page"]

\* the first step inside the block: _request waits for the rate limiter,
\* _fetch_robots calls self._session.get at once
Inside(kind) == IF kind = "robots" THEN "calling" ELSE "limiter"

\* `async with self._semaphore` is entered, by _request (page: sitemap,
\* catalog page or product) or by _fetch_robots: the permit is taken, or the
\* request queues for one
SemAcquire(t, kind) ==
    /\ reqPc[t] = "idle"
    /\ reqKind' = [reqKind EXCEPT ![t] = kind]
    /\ IF SemLocked(semValue, semWaiters)
       THEN /\ semWaiters' = Append(semWaiters, t)
            /\ reqPc' = [reqPc EXCEPT ![t] = "waiting"]
            /\ UNCHANGED semValue
       ELSE /\ semValue' = semValue - 1
            /\ reqPc' = [reqPc EXCEPT ![t] = Inside(kind)]
            /\ UNCHANGED semWaiters
    /\ UNCHANGED besideSemaphore

\* await self._rate_limiter.wait_for_host(parsed.netloc) returns
SemPermit(t) ==
    /\ reqPc[t] = "limiter"
    /\ reqPc' = [reqPc EXCEPT ![t] = "calling"]
    /\ UNCHANGED <<semValue, semWaiters, reqKind>>
    /\ UNCHANGED besideSemaphore

\* the call of a _request failed with a retried exception: retry_async
\* sleeps (_fetch_robots calls without retry_async)
SemBackoff(t) ==
    /\ reqPc[t] = "calling"
    /\ reqKind[t] = "page"
    /\ reqPc' = [reqPc EXCEPT ![t] = "backoff"]
    /\ UNCHANGED <<semValue, semWaiters, reqKind>>
    /\ UNCHANGED besideSemaphore

\* asyncio.sleep returns and retry_async calls again
SemRetry(t) ==
    /\ reqPc[t] = "backoff"
    /\ reqPc' = [reqPc EXCEPT ![t] = "calling"]
    /\ UNCHANGED <<semValue, semWaiters, reqKind>>
    /\ UNCHANGED besideSemaphore

\* the response or the exception leaves `async with`: the permit goes to
\* the first request of the queue, which goes on inside the block, or back
\* to the semaphore
SemRelease(t) ==
    /\ reqPc[t] = "calling"
    /\ IF semWaiters = <<>>
       THEN /\ semValue' = semValue + 1
            /\ reqPc' = [reqPc EXCEPT ![t] = "done"]
            /\ UNCHANGED semWaiters
       ELSE /\ semWaiters' = Tail(semWaiters)
            /\ reqPc' = [reqPc EXCEPT ![t] = "done",
                                      ![Head(semWaiters)] =
                                         Inside(reqKind[Head(semWaiters)])]
            /\ UNCHANGED semValue
    /\ reqKind' = [reqKind EXCEPT ![t] = "page"]
    /\ UNCHANGED besideSemaphore

NextSemaphore ==
    \/ \E t \in Requests, kind \in {"page", "robots"} : SemAcquire(t, kind)
    \/ \E t \in Requests : SemPermit(t)
    \/ \E t \in Requests : SemBackoff(t)
    \/ \E t \in Requests : SemRetry(t)
    \/ \E t \in Requests : SemRelease(t)

-----------------------------------------------------------------------------
(* ETagCache over its backing store                                        *)

MaxKeys == 2
MaxTags == 2

CacheKeys == 1..MaxKeys

\* a validator, or 0 for an absent one (None)
CacheTags == 0..MaxTags

EmptyData == [k \in CacheKeys |-> 0]

\* what the file at `path` can hold: nothing (no file), a JSON object
\* written by set, text that is not JSON, bytes that are not text, or a
\* JSON value that is not an object
StoreKinds == {"missing", "object", "not_json", "not_text", "not_object"}

CorruptKinds == {"not_json", "not_text", "not_object"}

\* ETagCache.__init__ over a store.  decodable: path.read_text() decodes the
\* bytes under the locale's encoding (it raises UnicodeDecodeError
\* otherwise, which `except json.JSONDecodeError` does not catch)
ETagCacheInit(store, decodable) ==
    IF store.kind = "object"
    THEN [err |-> "none", state |-> "dict", data |-> ETagCacheLoad(store.data)]
    ELSE IF store.kind = "not_object"
    THEN [err |-> "none", state |-> "other", data |-> EmptyData]
    ELSE IF store.kind = "not_text" /\ ~decodable
    THEN [err |-> "UnicodeDecodeError", state |-> "none", data |-> EmptyData]
    ELSE [err |-> "none", state |-> "dict", data |-> EmptyData]

InitCache ==
    /\ cacheFile = [kind |-> "missing", data |-> EmptyData]
    /\ cacheMem = EmptyData
    /\ cacheState = "dict"
    /\ cacheErr = "none"
    /\ cacheGot = <<0, 0>>
    /\ builtOn = "missing"
    /\ touched = FALSE

\* cache.set(url, etag): on a dict, ETagCache.set; on another JSON value
\* the item assignment (or pop with two arguments) raises TypeError
CacheSet(k, tag) ==
    /\ cacheState # "none"
    /\ IF cacheState = "dict"
       THEN LET r == ETagCacheSet(cacheMem, cacheFile.data, k, tag)
            IN  /\ cacheMem' = r.data
                /\ cacheFile' = IF tag = 0 THEN cacheFile
                                ELSE [kind |-> "object", data |-> r.file]
                /\ cacheErr' = "none"
       ELSE /\ cacheErr' = "TypeError"
            /\ UNCHANGED <<cacheMem, cacheFile>>
    /\ touched' = TRUE
    /\ UNCHANGED <<cacheState, cacheGot, builtOn>>
    /\ UNCHANGED besideCache

\* cache.get(url): self._data.get(url), an AttributeError when _data is
\* not a dict
CacheGet(k) ==
    /\ cacheState # "none"
    /\ IF cacheState = "dict"
       THEN /\ cacheGot' = <<k, ETagCacheGet(cacheMem, k)>>
            /\ cacheErr' = "none"
       ELSE /\ cacheErr' = "AttributeError"
            /\ UNCHANGED cacheGot
    /\ UNCHANGED <<cacheFile, cacheMem, cacheState, builtOn, touched>>
    /\ UNCHANGED besideCache

\* a new process constructs ETagCache(path) over the store as it is
CacheRestart(decodable) ==
    /\ LET r == ETagCacheInit(cacheFile, decodable)
       IN  /\ cacheMem' = r.data
           /\ cacheState' = r.state
           /\ cacheErr' = r.err
    /\ builtOn' = cacheFile.kind
    /\ touched' = FALSE
    /\ cacheGot' = <<0, 0>>
    /\ UNCHANGED cacheFile
    /\ UNCHANGED besideCache

\* the store is damaged between two processes
CacheCorrupt(kind) ==
    /\ kind \in CorruptKinds
    /\ cacheFile.kind # kind
    /\ cacheFile' = [kind |-> kind, data |-> EmptyData]
    /\ UNCHANGED <<cacheMem, cacheState, cacheErr, cacheGot, builtOn, touched>>
    /\ UNCHANGED besideCache

NextCache ==
    \/ \E k \in CacheKeys, tag \in CacheTags : CacheSet(k, tag)
    \/ \E k \in CacheKeys : CacheGet(k)
    \/ \E decodable \in BOOLEAN : CacheRestart(decodable)
    \/ \E kind \in StoreKinds : CacheCorrupt(kind)

-----------------------------------------------------------------------------
(* ShopifyIngestor._persist_records: one product of one brand              *)

\* variants of the product in one crawl result
MaxVariants == 2
\* crawl results persisted, one after the other
MaxCrawls == 2

\* variant.get("sku"): 0 for an absent SKU (NULL in the variants table)
Skus == {0, 1, 2}

Currencies == {"USD", "EUR"}

\* a crawl result: the SKUs of product.variants in the order of the
\* document; two variants never carry the same SKU, but any of them may
\* carry none
CrawlResults ==
    {r \in UNION {[1..n -> Skus] : n \in 1..MaxVariants} :
        \A i, j \in 1..Len(r) : (i # j /\ r[i] = r[j]) => r[i] = 0}

NoTables == [brand |-> FALSE, product |-> FALSE, variants |-> {}, prices |-> {}]

NoWrite == [vid |-> 0, date |-> 0, cur |-> "none", price |-> 0]

\* every statement is visible at once (autocommit)
ReadersSeeWorking(committed, working) == working

\* `with self.engine.begin() as conn`: until the commit, readers see the
\* committed tables
ReadersSee(committed, working) == committed

\* _ensure_variant: SELECT id ... WHERE product_id = :product_id AND sku IS
\* NOT DISTINCT FROM :sku (an absent SKU matches a row with a NULL SKU);
\* the row found is reused, otherwise a row is inserted under the next id
EnsureVariant(variants, sku) ==
    LET existing == {v \in variants : v.sku = sku}
    IN  IF existing # {}
        THEN [id |-> (CHOOSE v \in existing : TRUE).id, variants |-> variants]
        ELSE LET id == Cardinality(variants) + 1
             IN  [id |-> id, variants |-> variants \cup {[id |-> id, sku |-> sku]}]

\* INSERT INTO prices ... ON CONFLICT (variant_id, ts_date) DO UPDATE SET
\* price_cents, compare_at_cents, available (price stands for the three):
\* the currency of a row in conflict is not among the columns set
UpsertPrice(rows, vid, date, cur, price) ==
    LET old == {p \in rows : p.vid = vid /\ p.date = date}
    IN  IF old = {}
        THEN rows \cup {[vid |-> vid, date |-> date, cur |-> cur,
                           price |-> price]}
        ELSE (rows \ old) \cup {[p EXCEPT !.price = price] : p \in old}

InitPersist ==
    /\ db = NoTables
    /\ tx = NoTables
    /\ txPc = "idle"
    /\ txTodo = <<>>
    /\ txIds = <<>>
    /\ txCur = "none"
    /\ txDate = 1
    /\ crawls = 0
    /\ lastWrite = NoWrite

\* _persist_records(brand, products, ts_date) opens the transaction and
\* _ensure_brand runs.  The crawl is of the day of the one before or of the
\* next day; the prices of crawl n are written as n.
PersistBegin(result, cur, date) ==
    /\ txPc = "idle"
    /\ crawls < MaxCrawls
    /\ date \in {txDate, txDate + 1} /\ date <= MaxCrawls
    /\ crawls' = crawls + 1
    /\ txPc' = "product"
    /\ txTodo' = result
    /\ txIds' = <<>>
    /\ txCur' = cur
    /\ txDate' = date
    /\ tx' = [db EXCEPT !.brand = TRUE]
    /\ db' = ReadersSee(db, tx')
    /\ lastWrite' = NoWrite
    /\ UNCHANGED besidePersist

\* _ensure_product
PersistProduct ==
    /\ txPc = "product"
    /\ txPc' = "variants"
    /\ tx' = [tx EXCEPT !.product = TRUE]
    /\ db' = ReadersSee(db, tx')
    /\ UNCHANGED <<txTodo, txIds, txCur, txDate, crawls, lastWrite>>
    /\ UNCHANGED besidePersist

\* one turn of `for variant in product.variants`: _ensure_variant, then the
\* price upsert at (variant_id, ts_date)
PersistVariant ==
    /\ txPc = "variants"
    /\ txTodo # <<>>
    /\ LET e == EnsureVariant(tx.variants, Head(txTodo))
       IN  /\ tx' = [tx EXCEPT !.variants = e.variants,
                               !.prices = UpsertPrice(@, e.id, txDate, txCur,
                                                      crawls)]
           /\ txIds' = Append(txIds, e.id)
           /\ lastWrite' = [vid |-> e.id, date |-> txDate, cur |-> txCur,
                            price |-> crawls]
    /\ txTodo' = Tail(txTodo)
    /\ db' = ReadersSee(db, tx')
    /\ UNCHANGED <<txPc, txCur, txDate, crawls>>
    /\ UNCHANGED besidePersist

\* the with block ends: the transaction commits
PersistCommit ==
    /\ txPc = "variants"
    /\ txTodo = <<>>
    /\ txPc' = "idle"
    /\ db' = tx
    /\ UNCHANGED <<tx, txTodo, txIds, txCur, txDate, crawls, lastWrite>>
    /\ UNCHANGED besidePersist

\* a statement raises: the with block rolls the transaction back
PersistFail ==
    /\ txPc \in {"product", "variants"}
    /\ txPc' = "idle"
    /\ tx' = db
    /\ txTodo' = <<>>
    /\ txIds' = <<>>
    /\ lastWrite' = NoWrite
    /\ UNCHANGED <<db, txCur, txDate, crawls>>
    /\ UNCHANGED besidePersist

NextPersist ==
    \/ \E result \in CrawlResults, cur \in Currencies, date \in 1..MaxCrawls :
          PersistBegin(result, cur, date)
    \/ PersistProduct
    \/ PersistVariant
    \/ PersistCommit
    \/ PersistFail

-----------------------------------------------------------------------------
(* app/logic/signals.py and app/logic/ranking.py: the pure functions       *)

\* inputs of one normalized call
MaxValues == 3
\* inputs of one ad_surge call: the trailing window
MaxWindow == 3
\* candidate signals of one rank_brands call: short lists of any signal,
\* longer lists of two signals
MaxShort == 2
MaxSignals == 11

\* Python's None and a present value
None == <<>>
Some(v) == <<v>>
IsNone(x) == x = None
Val(x) == x[1]

Optional(S) == {None} \cup {Some(v) : v \in S}

\* a float result as the exact fraction num/den, den > 0
Frac(n, d) == [num |-> n, den |-> d]
Zero == Frac(0, 1)

Abs(x) == IF x < 0 THEN -x ELSE x

Least(a, b) == IF a <= b THEN a ELSE b

\* `not x` of an int | None
Falsy(x) == IsNone(x) \/ Val(x) = 0

\* discount_percentage(price, compare_at)
discount_percentage(price, compare_at) ==
    IF Falsy(price) \/ Falsy(compare_at) \/ Val(compare_at) <= 0
          \/ Val(price) >= Val(compare_at)
    THEN Zero
    ELSE Frac(Val(compare_at) - Val(price), Val(compare_at))

\* percent_change(new, old): None, or (new - old) / max(old, 1)
percent_change(new, old) ==
    IF IsNone(new) \/ IsNone(old) \/ Val(old) = 0
    THEN None
    ELSE Some(Frac(Val(new) - Val(old), IF Val(old) > 1 THEN Val(old) ELSE 1))

MoverThresholdPct == 10

\* is_mover(delta_pct_7d): abs(delta) >= MOVER_THRESHOLD
is_mover(delta) ==
    IF IsNone(delta)
    THEN FALSE
    ELSE Abs(Val(delta).num) * 100 >= MoverThresholdPct * Val(delta).den

RECURSIVE InsertAsc(_, _)
InsertAsc(s, x) ==
    IF s = <<>> THEN <<x>>
    ELSE IF x < Head(s) THEN <<x>> \o s
    ELSE <<Head(s)>> \o InsertAsc(Tail(s), x)

\* the sort inside np.median
RECURSIVE SortAsc(_)
SortAsc(s) ==
    IF s = <<>> THEN <<>> ELSE InsertAsc(SortAsc(Tail(s)), Head(s))

\* values[n // 2] alone
Median2Upper(values) ==
    LET s == SortAsc(values)
    IN  2 * s[Len(s) \div 2 + 1]

\* np.median(values) times two: the middle value, or the mean of the two
\* middle values, of the sorted list
Median2(values) ==
    LET s == SortAsc(values)
        n == Len(s)
    IN  s[(n + 1) \div 2] + s[n \div 2 + 1]

AD_SURGE_MULTIPLIER == 2
AD_SURGE_MIN_DELTA == 5

\* [v for v in trailing_values if v is not None]
Present(values) == SelectSeq(values, LAMBDA v : ~IsNone(v))

Unwrap(values) == [i \in 1..Len(values) |-> Val(values[i])]

\* ad_surge(active_today, trailing_values)
ad_surge(active_today, trailing_values) ==
    LET trailing == Unwrap(Present(trailing_values))
    IN  IF trailing = <<>>
        THEN FALSE
        ELSE LET m2 == Median2(trailing)
             IN  IF m2 = 0
                 THEN active_today >= AD_SURGE_MIN_DELTA
                 ELSE /\ 2 * active_today >= AD_SURGE_MULTIPLIER * m2
                      /\ 2 * active_today - m2 >= 2 * AD_SURGE_MIN_DELTA

\* numpy.allclose defaults: rtol = 1e-05 (atol = 1e-08 adds nothing between
\* integers); math.isclose default: rel_tol = 1e-09
RtolInverse == 100000
RelTolInverse == 1000000000

\* np.allclose(arr, arr[0]): |v - arr[0]| <= atol + rtol * |arr[0]|
AllClose(values) ==
    \A i \in 1..Len(values) :
        Abs(values[i] - values[1]) <= Abs(values[1]) \div RtolInverse

\* math.isclose(a, b)
IsClose(a, b) ==
    LET big == IF Abs(a) >= Abs(b) THEN Abs(a) ELSE Abs(b)
    IN  Abs(a - b) <= big \div RelTolInverse

RECURSIVE ArrMin(_)
ArrMin(s) ==
    IF Len(s) = 1 THEN s[1]
    ELSE LET m == ArrMin(Tail(s)) IN IF Head(s) <= m THEN Head(s) ELSE m

RECURSIVE ArrMax(_)
ArrMax(s) ==
    IF Len(s) = 1 THEN s[1]
    ELSE LET m == ArrMax(Tail(s)) IN IF Head(s) >= m THEN Head(s) ELSE m

\* ties scaled to the middle of the range
normalizedHalf(values) ==
    IF values = <<>> THEN <<>>
    ELSE IF AllClose(values) \/ IsClose(ArrMin(values), ArrMax(values))
    THEN [i \in 1..Len(values) |-> Frac(1, 2)]
    ELSE [i \in 1..Len(values) |->
             Frac(values[i] - ArrMin(values), ArrMax(values) - ArrMin(values))]

\* normalized(values)
normalized(values) ==
    IF values = <<>> THEN <<>>
    ELSE IF AllClose(values) \/ IsClose(ArrMin(values), ArrMax(values))
    THEN [i \in 1..Len(values) |-> Zero]
    ELSE [i \in 1..Len(values) |->
             Frac(values[i] - ArrMin(values), ArrMax(values) - ArrMin(values))]

\* the order of two fractions
FracLess(a, b) == a.num * b.den < b.num * a.den
FracEq(a, b) == a.num * b.den = b.num * a.den

\* WEIGHTS, in tenths
WeightDelta == 5
WeightDiscount == 3
WeightAds == 2

\* WEIGHTS["delta"] * a + WEIGHTS["discount"] * b + WEIGHTS["ads"] * c
Combined(a, b, c) ==
    Frac(WeightDelta * a.num * b.den * c.den
           + WeightDiscount * b.num * a.den * c.den
           + WeightAds * c.num * a.den * b.den,
         10 * a.den * b.den * c.den)

\* the combined scores of rank_brands, in list order
Scores(signals) ==
    LET n == Len(signals)
    IN  CHOOSE scores \in
            {[i \in 1..n |-> Combined(norms[1][i], norms[2][i], norms[3][i])] :
                norms \in
                  {<<normalized([i \in 1..n |-> Abs(signals[i].delta_pct_7d)]),
                     normalized([i \in 1..n |->
                                    signals[i].discounted_sku_count]),
                     normalized([i \in 1..n |-> signals[i].ad_surge])>>}} :
            TRUE

\* items are <<signal, score>>; an item goes before the first item already
\* placed that does not score more than it: equal scores end up reversed
RECURSIVE InsertDescBefore(_, _)
InsertDescBefore(s, x) ==
    IF s = <<>> THEN <<x>>
    ELSE IF ~FracLess(x[2], Head(s)[2]) THEN <<x>> \o s
    ELSE <<Head(s)>> \o InsertDescBefore(Tail(s), x)

RECURSIVE InsertDesc(_, _)
InsertDesc(s, x) ==
    IF s = <<>> THEN <<x>>
    ELSE IF FracLess(Head(s)[2], x[2]) THEN <<x>> \o s
    ELSE <<Head(s)>> \o InsertDesc(Tail(s), x)

RECURSIVE SortedDescUnstable(_)
SortedDescUnstable(items) ==
    IF items = <<>> THEN <<>>
    ELSE InsertDescBefore(SortedDescUnstable(SubSeq(items, 1, Len(items) - 1)),
                          items[Len(items)])

\* sorted(items, key=lambda item: item[1], reverse=True): stable
RECURSIVE SortedDesc(_)
SortedDesc(items) ==
    IF items = <<>> THEN <<>>
    ELSE InsertDesc(SortedDesc(SubSeq(items, 1, Len(items) - 1)),
                    items[Len(items)])

\* round(score, 4) in units of 1/10000, ties to the even neighbour
Round4(f) ==
    LET q == (f.num * 10000) \div f.den
        r == (f.num * 10000) % f.den
    IN  IF 2 * r > f.den \/ (2 * r = f.den /\ q % 2 = 1) THEN q + 1 ELSE q

LeaderboardSize == 10
MoversSize == 10

\* rank_brands(signals)
rank_brands(signals) ==
    LET Board(sorted_scores) ==
            [rank \in 1..Least(LeaderboardSize, Len(signals)) |->
                [brand_id |-> sorted_scores[rank][1].brand_id,
                 score |-> Round4(sorted_scores[rank][2]),
                 rank |-> rank]]
        Sorted(scores) ==
            SortedDesc([i \in 1..Len(signals) |-> <<signals[i], scores[i]>>])
    IN  CHOOSE board \in
            {Board(sorted) : sorted \in
                {Sorted(scores) : scores \in {Scores(signals)}}} : TRUE

\* top_sku_movers(movers): the movers with a delta, by abs(delta) descending
top_sku_movers(movers) ==
    LET filtered == SelectSeq(movers, LAMBDA m : ~IsNone(m.delta_pct_7d))
        keyed == [i \in 1..Len(filtered) |->
                     <<filtered[i],
                       Frac(Abs(Val(filtered[i].delta_pct_7d).num),
                            Val(filtered[i].delta_pct_7d).den)>>]
        sorted == SortedDesc(keyed)
    IN  [i \in 1..Least(MoversSize, Len(sorted)) |-> sorted[i][1]]

\* the arguments the functions are applied to
CentValues == {-100, 0, 80, 100}
AdCounts == {0, 1, 3, 6, 10, 20}
NormValues == {0, 1, 2, 100000, 100001}
DeltaValues == {-2, 0, 1}
CountValues == {1, 2}
SurgeValues == {0, 1}

SeqsUpTo(S, n) == UNION {[1..k -> S] : k \in 0..n}

Windows == SeqsUpTo(Optional(AdCounts), MaxWindow)

SignalKinds ==
    [delta_pct_7d : DeltaValues, discounted_sku_count : CountValues,
     ad_surge : SurgeValues]

TwoSignals ==
    {[delta_pct_7d |-> 0, discounted_sku_count |-> 1, ad_surge |-> 0],
     [delta_pct_7d |-> -2, discounted_sku_count |-> 2, ad_surge |-> 1]}

\* the brand of a candidate is its place in the list
Candidates(kinds) ==
    [i \in 1..Len(kinds) |->
        [brand_id |-> i, delta_pct_7d |-> kinds[i].delta_pct_7d,
         discounted_sku_count |-> kinds[i].discounted_sku_count,
         ad_surge |-> kinds[i].ad_surge]]

SignalLists ==
    SeqsUpTo(SignalKinds, MaxShort)
        \cup UNION {[1..k -> TwoSignals] : k \in (MaxShort + 1)..MaxSignals}

InitSignals ==
    /\ sigOp = "none"
    /\ sigArgs = <<>>
    /\ sigOut = <<>>

\* the call and its result
Apply(op, args, out) ==
    /\ sigOp' = op
    /\ sigArgs' = args
    /\ sigOut' = out
    /\ UNCHANGED besideSignals

CallDiscountPercentage ==
    /\ sigOp = "none"
    /\ \E price \in Optional(CentValues), compare_at \in Optional(CentValues) :
           Apply("discount_percentage", <<price, compare_at>>,
                 discount_percentage(price, compare_at))

CallAdSurge ==
    /\ sigOp = "none"
    /\ \E today \in AdCounts, trailing \in Windows :
           Apply("ad_surge", <<today, trailing>>, ad_surge(today, trailing))

CallNormalized ==
    /\ sigOp = "none"
    /\ \E values \in SeqsUpTo(NormValues, MaxValues) :
           Apply("normalized", values, normalized(values))

CallRankBrands ==
    /\ sigOp = "none"
    /\ \E kinds \in SignalLists :
           Apply("rank_brands", Candidates(kinds), rank_brands(Candidates(kinds)))

NextSignals ==
    \/ CallDiscountPercentage
    \/ CallAdSurge
    \/ CallNormalized
    \/ CallRankBrands

-----------------------------------------------------------------------------
(* app/logic/daily.py: compute_daily_digest over the stored time series    *)

\* the observations of a day differ from those of the day before in at
\* most this many places over a history
MaxEvents == 2

\* LAG(pr.price_cents, 7)
LagRows == 7
\* start = as_of - timedelta(days=6)
AdWindowDays == 6
\* notable_ads[:3]
NotableAds == 3

\* the shortest history in which a price of 7 rows back exists
DigestDays == LagRows + 1

\* two brands with one product of one variant each: variant b of brand b
DigestBrands == {1, 2}

\* what a crawl can find for a variant: price_cents and compare_at_cents
PriceLevels ==
    {[price_cents |-> 4900, compare_at_cents |-> 5900],
     [price_cents |-> 3900, compare_at_cents |-> 4900],
     [price_cents |-> 4800, compare_at_cents |-> 4800]}

\* what an ads fetch can find for a brand: active_ads
AdLevels == {1, 20}

\* a day's observations; None: the crawl or the ads fetch stored nothing
Feeds ==
    [price : [DigestBrands -> Optional(PriceLevels)],
     ads : [DigestBrands -> Optional(AdLevels)]]

SteadyFeed ==
    [price |-> [b \in DigestBrands |->
                   Some([price_cents |-> 4900, compare_at_cents |-> 5900])],
     ads |-> [b \in DigestBrands |-> Some(1)]]

Changes(f, g) ==
    Cardinality({b \in DigestBrands : f.price[b] # g.price[b]})
        + Cardinality({b \in DigestBrands : f.ads[b] # g.ads[b]})

\* LAG(pr.price_cents, k) OVER (PARTITION BY pr.variant_id ORDER BY
\* pr.ts_date) at the row of date `as_of`: the price of the row k rows
\* before it, NULL when the variant has fewer than k earlier rows
LagPrice(tab, variant, as_of, k) ==
    LET earlier == {r \in tab : r.variant_id = variant /\ r.ts_date < as_of}
    IN  IF Cardinality(earlier) < k
        THEN None
        ELSE Some((CHOOSE r \in earlier :
                      Cardinality({e \in earlier : e.ts_date > r.ts_date})
                          = k - 1).price_cents)

\* the price of the row dated exactly k days before `as_of`
PriceDaysBefore(tab, variant, as_of, k) ==
    LET on == {r \in tab : r.variant_id = variant /\ r.ts_date = as_of - k}
    IN  IF on = {} THEN None ELSE Some((CHOOSE r \in on : TRUE).price_cents)

\* _load_price_rows(engine, as_of): the rows of the date with their lagged
\* price, in the order the window function sorts them (by variant_id; the
\* query has no ORDER BY of its own)
load_price_rows(tab, as_of) ==
    LET on == {q \in tab : q.ts_date = as_of}
        Nth(i) == CHOOSE r \in on :
                      Cardinality({e \in on : e.variant_id < r.variant_id})
                          = i - 1
    IN  [i \in 1..Cardinality(on) |->
            [brand_id |-> Nth(i).variant_id, variant_id |-> Nth(i).variant_id,
             price_cents |-> Some(Nth(i).price_cents),
             compare_at_cents |-> Some(Nth(i).compare_at_cents),
             price_7d |-> LagPrice(tab, Nth(i).variant_id, as_of, LagRows)]]

\* the elements of a set of rows by ts_date
ByDate(rows) ==
    [i \in 1..Cardinality(rows) |->
        CHOOSE r \in rows :
            Cardinality({e \in rows : e.ts_date < r.ts_date}) = i - 1]

\* _load_ad_activity(engine, as_of): per brand with a row between as_of - 6
\* and as_of, the last row of the window as today and the rows before it as
\* the trailing values
load_ad_activity(tab, as_of) ==
    LET Window(b) ==
            {r \in tab : /\ r.brand_id = b
                         /\ as_of - AdWindowDays <= r.ts_date
                         /\ r.ts_date <= as_of}
        Info(entries) ==
            LET today_active == entries[Len(entries)].active_ads
                trailing == [i \in 1..(Len(entries) - 1) |->
                                Some(entries[i].active_ads)]
            IN  [today |-> today_active,
                 surge |-> ad_surge(today_active, trailing)]
    IN  [b \in {c \in DigestBrands : Window(c) # {}} |->
            Info(ByDate(Window(b)))]

\* the rows that are the first of their brand
FirstOfBrand(rows) ==
    {i \in 1..Len(rows) :
        \A j \in 1..(i - 1) : rows[j].brand_id # rows[i].brand_id}

\* the places I of a sequence, as a sequence in the order of the places
Pick(s, I) ==
    [n \in 1..Cardinality(I) |->
        s[CHOOSE i \in I : Cardinality({j \in I : j < i}) = n - 1]]

RECURSIVE Gcd(_, _)
Gcd(a, b) == IF b = 0 THEN a ELSE Gcd(b, a % b)

RECURSIVE Product(_)
Product(s) == IF s = <<>> THEN 1 ELSE Head(s) * Product(Tail(s))

\* a list of floats as integers in the same proportions: the fractions in
\* lowest terms on the product of their denominators
AsIntegers(fracs) ==
    LET low == [i \in 1..Len(fracs) |->
                  LET g == Gcd(Abs(fracs[i].num), fracs[i].den)
                  IN  Frac(fracs[i].num \div g, fracs[i].den \div g)]
        all == Product([i \in 1..Len(low) |-> low[i].den])
    IN  [i \in 1..Len(low) |-> low[i].num * (all \div low[i].den)]

\* compute_daily_digest(engine, as_of), from the rows loaded and the ad
\* activity loaded
compute_daily_digest(rows, ad_activity) ==
    LET Delta(row) == percent_change(row.price_cents, row.price_7d)
        Discounted(row) ==
            discount_percentage(row.price_cents, row.compare_at_cents).num > 0
        movers ==
            SelectSeq([i \in 1..Len(rows) |->
                          [brand_id |-> rows[i].brand_id,
                           variant_id |-> rows[i].variant_id,
                           new_price |-> rows[i].price_cents,
                           old_price |-> rows[i].price_7d,
                           delta_pct_7d |-> Delta(rows[i])]],
                      LAMBDA m : is_mover(m.delta_pct_7d))
        ad_signals ==
            Pick([i \in 1..Len(rows) |->
                     IF rows[i].brand_id \in DOMAIN ad_activity
                     THEN [brand_id |-> rows[i].brand_id,
                           active_ads |-> ad_activity[rows[i].brand_id].today,
                           surge |-> ad_activity[rows[i].brand_id].surge]
                     ELSE None],
                 {i \in FirstOfBrand(rows) :
                     rows[i].brand_id \in DOMAIN ad_activity})
        counted ==
            Pick(rows,
                 {i \in 1..Len(rows) :
                     /\ Discounted(rows[i])
                     /\ \A j \in 1..(i - 1) :
                           rows[j].brand_id = rows[i].brand_id
                               => ~Discounted(rows[j])})
        Example(b) == rows[CHOOSE i \in FirstOfBrand(rows) :
                              rows[i].brand_id = b]
        deltas ==
            AsIntegers([i \in 1..Len(counted) |->
                           LET delta == Delta(Example(counted[i].brand_id))
                           IN  IF IsNone(delta) THEN Zero ELSE Val(delta)])
        brand_signals ==
            [i \in 1..Len(counted) |->
                [brand_id |-> counted[i].brand_id,
                 delta_pct_7d |-> deltas[i],
                 discounted_sku_count |->
                     Cardinality({j \in 1..Len(rows) :
                         /\ rows[j].brand_id = counted[i].brand_id
                         /\ Discounted(rows[j])}),
                 ad_surge |->
                     IF /\ counted[i].brand_id \in DOMAIN ad_activity
                        /\ ad_activity[counted[i].brand_id].surge
                     THEN 1 ELSE 0]]
        surging == SelectSeq(ad_signals, LAMBDA ad : ad.surge)
        notable_ads ==
            SortedDesc([i \in 1..Len(surging) |->
                           <<surging[i], Frac(surging[i].active_ads, 1)>>])
    IN  [movers |-> top_sku_movers(movers),
         leaderboard |-> rank_brands(brand_signals),
         ads |-> [i \in 1..Least(NotableAds, Len(notable_ads)) |->
                     notable_ads[i][1]]]

NoDigest == [movers |-> <<>>, leaderboard |-> <<>>, ads |-> <<>>]

InitDigest ==
    /\ digestDate = 0
    /\ digestPc = "ingest"
    /\ priceTab = {}
    /\ adsTab = {}
    /\ leaders = {}
    /\ feed = SteadyFeed
    /\ events = 0
    /\ digest = NoDigest

\* the ingest loops of run_daily for the next date: a price row per variant
\* the crawl found, an ads row per brand whose ads fetch succeeded
IngestDay(found) ==
    /\ digestPc = "ingest"
    /\ digestDate < DigestDays
    /\ events + Changes(feed, found) <= MaxEvents
    /\ events' = events + Changes(feed, found)
    /\ feed' = found
    /\ digestDate' = digestDate + 1
    /\ priceTab' = priceTab \cup
          {[variant_id |-> b, ts_date |-> digestDate + 1,
            price_cents |-> Val(found.price[b]).price_cents,
            compare_at_cents |-> Val(found.price[b]).compare_at_cents] :
              b \in {c \in DigestBrands : ~IsNone(found.price[c])}}
    /\ adsTab' = adsTab \cup
          {[brand_id |-> b, ts_date |-> digestDate + 1,
            active_ads |-> Val(found.ads[b])] :
              b \in {c \in DigestBrands : ~IsNone(found.ads[c])}}
    /\ digestPc' = "digest"
    /\ UNCHANGED <<leaders, digest>>
    /\ UNCHANGED besideDigest

\* compute_daily_digest(engine, target_date), then persist_leaderboard
DigestDay ==
    /\ digestPc = "digest"
    /\ digest' = compute_daily_digest(load_price_rows(priceTab, digestDate),
                                      load_ad_activity(adsTab, digestDate))
    /\ leaders' = {l \in leaders : l.ts_date # digestDate} \cup
          {[ts_date |-> digestDate, brand_id |-> digest'.leaderboard[i].brand_id,
            score |-> digest'.leaderboard[i].score,
            rank |-> digest'.leaderboard[i].rank] :
              i \in 1..Len(digest'.leaderboard)}
    /\ digestPc' = "ingest"
    /\ UNCHANGED <<digestDate, priceTab, adsTab, feed, events>>
    /\ UNCHANGED besideDigest

NextDigest ==
    \/ \E found \in Feeds : IngestDay(found)
    \/ DigestDay

-----------------------------------------------------------------------------
(* The validators of a brand's products over several crawls                *)

\* crawls of the one brand, one process each
MaxRecrawls == 2

Recrawls == 1..MaxRecrawls

\* .cache/etags.json before the first crawl
NoTokens == [u \in Urls |-> 0]

\* the ETag header of a reply of crawl c: none, or that of the document's
\* version of that crawl; a not-modified reply and a transport error carry
\* none that _request looks at
RecrawlTags(o, c) == IF o.ok /\ o.val # 304 THEN {0, c} ELSE {0}

InitRecrawl ==
    /\ rcCrawl = 1
    /\ rcPc = "gather"
    /\ rcTasks = [h \in Handles |-> "todo"]
    /\ rcInm = [h \in Handles |-> 0]
    /\ rcCache = NoTokens
    /\ rcStored = [h \in Handles |-> {}]

\* _fetch_product(base_url, handle) of the gather: _request reads the token
\* of the URL, sends it as If-None-Match, and stores the ETag of any reply
\* other than not-modified before it returns; _fetch_product then yields a
\* product, skips it (304, 403, 404) or raises.  A task that raises makes
\* the gather and ingest raise; the tasks still pending go on until the
\* process ends
FetchProduct(h) ==
    /\ rcPc \in {"gather", "failed"}
    /\ rcTasks[h] = "todo"
    /\ LET url == ProductUrl(1, h)
           inm == ETagCacheGet(rcCache, url)
       IN  \E o \in Replies(inm) : \E etag \in RecrawlTags(o, rcCrawl) :
             LET st == StoreETag(rcCache, rcCache, url, o, etag)
                 res == ProductResult(o)
             IN  /\ rcCache' = st.file
                 /\ rcInm' = [rcInm EXCEPT ![h] = inm]
                 /\ rcTasks' = [rcTasks EXCEPT ![h] =
                                  IF res = "raise" THEN "failed" ELSE res]
                 /\ rcPc' = IF res = "raise" THEN "failed" ELSE rcPc
    /\ UNCHANGED <<rcCrawl, rcStored>>
    /\ UNCHANGED besideRecrawl

\* the gather returned: _persist_records stores the products fetched in one
\* transaction; a database error rolls it back and ingest raises
PersistRecords(dbok) ==
    /\ rcPc = "gather"
    /\ \A h \in Handles : rcTasks[h] \in {"ok", "skip304", "skip40x"}
    /\ IF dbok
       THEN /\ rcStored' = [h \in Handles |->
                              IF rcTasks[h] = "ok"
                              THEN rcStored[h] \cup {rcCrawl}
                              ELSE rcStored[h]]
            /\ rcPc' = "persisted"
       ELSE /\ rcPc' = "failed"
            /\ UNCHANGED rcStored
    /\ UNCHANGED <<rcCrawl, rcTasks, rcInm, rcCache>>
    /\ UNCHANGED besideRecrawl

\* the next run: a new process whose ETagCache is read from the file
NextCrawl ==
    /\ rcPc \in {"persisted", "failed"}
    /\ rcCrawl < MaxRecrawls
    /\ rcCrawl' = rcCrawl + 1
    /\ rcPc' = "gather"
    /\ rcTasks' = [h \in Handles |-> "todo"]
    /\ rcInm' = [h \in Handles |-> 0]
    /\ rcCache' = ETagCacheLoad(rcCache)
    /\ UNCHANGED rcStored
    /\ UNCHANGED besideRecrawl

NextRecrawl ==
    \/ \E h \in Handles : FetchProduct(h)
    \/ \E dbok \in BOOLEAN : PersistRecords(dbok)
    \/ NextCrawl

\* C29, the cache: once a crawl of the brand has ended, the data of the
\* reply that supplied the token held for a product URL has been stored
C29_TokenOfStoredData ==
    rcPc \in {"persisted", "failed"} =>
        \A h \in Handles :
            rcCache[ProductUrl(1, h)] # 0 =>
                rcCache[ProductUrl(1, h)] \in rcStored[h]

\* C29, the skip: a product skipped as not-modified has been stored before
C29_SkippedWasStored ==
    \A h \in Handles : rcTasks[h] = "skip304" => rcStored[h] # {}

\* C29: whenever the validator cache holds a token for a product URL, the
\* price data of the response that supplied the token has been persisted; a
\* brand crawl that fails or is aborted after some product fetches succeeded
\* never causes those products to be skipped as not-modified in a later
\* crawl without their data ever having been stored.
C29_NeverSkippedUnstored == C29_TokenOfStoredData /\ C29_SkippedWasStored

-----------------------------------------------------------------------------
(* ShopifyClient._request: the limiter's permit and the attempts of the    *)
(* retry wrapper, on one clock                                             *)

\* the clock runs this far, in ticks: past the first backoff of a request
\* permitted at the start
MaxPaceClock == 5

\* random.random() in [0, 1), in ticks
Jitters == 0..(TicksPerSecond - 1)

\* asyncio.sleep(delay + random.random()) with delay = 1.0 doubled after
\* every sleep, in ticks
BackoffTicks(n, jitter) == (2 ^ n) * TicksPerSecond + jitter

InitPacing ==
    /\ rqPc = [c \in Callers |-> "limiter"]
    /\ rqAttempt = [c \in Callers |-> 0]
    /\ rqWake = [c \in Callers |-> 0]
    /\ wireCount = [h \in Hosts |-> 0]
    /\ wireLast = [h \in Hosts |-> 0]
    /\ wirePrev = [h \in Hosts |-> 0]

\* time passes; nothing is awaited between the return of wait_for_host and
\* the call of self._session.request, so no time passes there
PaceTick ==
    /\ clock < MaxPaceClock
    /\ \A c \in Callers : ~(rqPc[c] = "limiter" /\ callPc[c] = "returned")
    /\ clock' = clock + 1
    /\ UNCHANGED <<locks, waiters, last_request, callPc, callHost, wake,
                   slept, permits, prevPermit>>
    /\ UNCHANGED besideLimiter

\* parsed.netloc of the URLs of a brand's crawl: the host of brand.domain
CrawlHost == 1

\* _request(method, url) of a task reaches `await
\* self._rate_limiter.wait_for_host(parsed.netloc)`
RequestPermit(c) ==
    /\ callPc[c] = "idle"
    /\ WaitForHost(c, CrawlHost)

\* `await func(...)` of the wrapper with loop variable n, func being
\* self._session.request: the request goes to the host now; a response of
\* any status is returned, a retryable exception before the last attempt is
\* followed by asyncio.sleep(delay + random.random()), any other exception
\* leaves _request
Attempt(c, n, out, jitter) ==
    LET h == callHost[c]
    IN  /\ wireCount' = [wireCount EXCEPT ![h] = IF @ < 2 THEN @ + 1 ELSE 2]
        /\ wirePrev' = [wirePrev EXCEPT ![h] = wireLast[h]]
        /\ wireLast' = [wireLast EXCEPT ![h] = clock]
        /\ rqAttempt' = [rqAttempt EXCEPT ![c] = n]
        /\ IF ~out.ok /\ IsRetryException(out.val) /\ ~IsLastAttempt(n)
           THEN /\ rqPc' = [rqPc EXCEPT ![c] = "backoff"]
                /\ rqWake' = [rqWake EXCEPT ![c] =
                                clock + BackoffTicks(n, jitter)]
           ELSE /\ rqPc' = [rqPc EXCEPT ![c] = "done"]
                /\ rqWake' = [rqWake EXCEPT ![c] = 0]
        /\ UNCHANGED besidePacing

\* wait_for_host returned: retry_async(self._session.request)(...) is
\* called and makes its first attempt
FirstAttempt(c) ==
    /\ rqPc[c] = "limiter"
    /\ callPc[c] = "returned"
    /\ \E out \in CallOutcomes, jitter \in Jitters :
          Attempt(c, 0, out, jitter)

\* the backoff sleep returned, no earlier than asked: delay *= 2 and the
\* loop makes the next attempt, without a call of wait_for_host
NextAttempt(c) ==
    /\ rqPc[c] = "backoff"
    /\ clock >= rqWake[c]
    /\ \E out \in CallOutcomes, jitter \in Jitters :
          Attempt(c, rqAttempt[c] + 1, out, jitter)

NextPacing ==
    \/ PaceTick
    \/ \E c \in Callers : RequestPermit(c)
    \/ \E c \in Callers : Enter(c)
    \/ \E c \in Callers : WakeUp(c)
    \/ \E c \in Callers : FirstAttempt(c)
    \/ \E c \in Callers : NextAttempt(c)

\* C27: any two requests a crawl sends to one host, every retried attempt
\* counted, are at least min_interval apart, each of them being preceded by
\* a permit of its own for that host.
C27_RequestsPaced ==
    \A h \in Hosts :
        wireCount[h] >= 2 => wireLast[h] - wirePrev[h] >= min_interval

-----------------------------------------------------------------------------
(* The specifications                                                      *)

\* the components a specification leaves alone, as constructed
InitIdle == InitSemaphore /\ InitCache /\ InitPersist /\ InitSignals /\ InitDigest /\ InitRecrawl /\ InitPacing

\* every configured brand, every storefront with a sitemap
AllBrands == nbrands = MaxBrands /\ noSitemap = {} /\ InitIdle

Init == InitLimiter /\ clock = 0 /\ InitRetry /\ InitRun /\ AllBrands

Spec == Init /\ [][Next]_vars

InitL == InitLimiter /\ InitRetry /\ InitRun /\ AllBrands

NextL == NextLimiter

SpecLimiter == InitL /\ [][NextL]_vars

\* the wrapper alone: a limiter nobody calls
InitR == InitLimiter /\ clock = 0 /\ InitRetry /\ InitRun /\ AllBrands

\* the daily run of a single brand, whose storefront may lack a sitemap
InitOne ==
    /\ InitLimiter /\ clock = 0 /\ InitRetry /\ InitRun
    /\ nbrands = 1
    /\ noSitemap \in SUBSET {1}
    /\ InitIdle

\* the requests of one crawler under its semaphore
InitS == InitLimiter /\ clock = 0 /\ InitRetry /\ InitRun /\ AllBrands

NextS == NextSemaphore

SpecSemaphore == InitS /\ [][NextS]_vars

\* one ETagCache after another over the same backing store
InitC == InitLimiter /\ clock = 0 /\ InitRetry /\ InitRun /\ AllBrands

NextC == NextCache

SpecCache == InitC /\ [][NextC]_vars

\* crawl results of one product persisted one after the other
InitP == InitLimiter /\ clock = 0 /\ InitRetry /\ InitRun /\ AllBrands

NextP == NextPersist

SpecPersist == InitP /\ [][NextP]_vars

\* the pure functions applied to arguments of every shape
InitG == InitLimiter /\ clock = 0 /\ InitRetry /\ InitRun /\ AllBrands

NextG == NextSignals

SpecSignals == InitG /\ [][NextG]_vars

\* daily runs over a history of price and ad observations
InitD == InitLimiter /\ clock = 0 /\ InitRetry /\ InitRun /\ AllBrands

NextD == NextDigest

SpecDigest == InitD /\ [][NextD]_vars

\* the crawls of one brand, one after the other
InitV == InitLimiter /\ clock = 0 /\ InitRetry /\ InitRun /\ AllBrands

NextV == NextRecrawl

SpecRecrawl == InitV /\ [][NextV]_vars

\* the requests of concurrent tasks of a crawl, each one _request
InitA == InitLimiter /\ InitRetry /\ InitRun /\ AllBrands

NextA == NextPacing

SpecPacing == InitA /\ [][NextA]_vars

NextOne == Next

SpecOneBrand == InitOne /\ [][NextOne]_vars

NextR == NextRetry

SpecRetry == InitR /\ [][NextR]_vars

\* C5: retry_async calls the wrapped operation at most 3 times; it returns
\* the result of the first call that succeeds and calls no more; when three
\* calls failed it raises the failure of the third call, unchanged.
C5_BoundedAttempts ==
    /\ Len(calls) <= 3
    /\ \A i \in 1..Len(calls) : calls[i].ok => i = Len(calls)
    /\ (Len(calls) > 0 /\ calls[Len(calls)].ok) =>
          (retryPc = "returned" /\ retryOut = calls[Len(calls)])
    /\ retryPc = "returned" =>
          (Len(calls) > 0 /\ retryOut = calls[Len(calls)] /\ retryOut.ok)
    /\ (Len(calls) = 3 /\ ~calls[3].ok) =>
          (retryPc = "raised" /\ retryOut = calls[3])

\* three calls failed and the wrapper raised
C5_Witness ==
    /\ retryPc = "raised"
    /\ Len(calls) = 3
    /\ \A i \in 1..3 : ~calls[i].ok

\* connection errors and timeouts, whichever library raises them
IsTransient(kind) ==
    kind \in {"OSError", "asyncio.TimeoutError", "httpx.ConnectError",
              "httpx.TimeoutException"}

\* C6: a connection error or timeout raised by the call on attempt 1 or 2 is
\* always followed by another attempt; any other failure, and any response
\* (4xx/5xx included), ends the wrapper after that single attempt.
C6_OnlyTransientRetried ==
    /\ (retryPc = "raised" /\ IsTransient(retryOut.val)) => retryOut.at = 3
    /\ \A i \in 1..Len(calls) :
          (calls[i].ok \/ ~IsTransient(calls[i].val)) => i = Len(calls)

InGate(c) == callPc[c] \in {"locked", "sleeping"}

\* C3: permits for one host are granted one at a time (at most one caller
\* is inside the host's gate), and any two consecutive timestamps recorded
\* for a host are at least min_interval apart.
C3_PermitsPaced ==
    \A h \in Hosts :
        /\ Cardinality({c \in Callers : InGate(c) /\ callHost[c] = h}) <= 1
        /\ permits[h] >= 2 => last_request[h] - prevPermit[h] >= min_interval

\* a third permit is pending for a host while one caller sleeps inside the
\* gate and another queues behind it
C3_Witness ==
    \E h \in Hosts, c1, c2 \in Callers :
        /\ permits[h] >= 2
        /\ callHost[c1] = h /\ callPc[c1] = "sleeping"
        /\ callHost[c2] = h /\ callPc[c2] = "blocked"

\* C4, state part: a caller queues only behind a caller of its own host
C4_BlockedOnlyByOwnHost ==
    \A c \in Callers :
        callPc[c] = "blocked" =>
            \E c2 \in Callers \ {c} : InGate(c2) /\ callHost[c2] = callHost[c]

\* C4, step part: a caller sleeps only when its own host's last permit is
\* younger than min_interval, and a step changes the gate, the queue or the
\* timestamp of a host only when every caller that moved is on that host
C4_StepIndependent ==
    /\ \A c \in Callers :
          (callPc[c] = "locked" /\ callPc'[c] = "sleeping") =>
              clock - last_request[callHost[c]] < min_interval
    /\ \A h \in Hosts :
          (locks'[h] # locks[h] \/ waiters'[h] # waiters[h]
             \/ last_request'[h] # last_request[h]) =>
              \A c \in Callers : callPc'[c] # callPc[c] => callHost'[c] = h

\* C4: a wait_for_host call for host A is never delayed by host B and leaves
\* B's gate and B's last-request timestamp unchanged.
C4_HostsIndependent ==
    []C4_BlockedOnlyByOwnHost /\ [][C4_StepIndependent]_vars

\* a caller returned without sleeping, on a host with an earlier permit,
\* at an instant when a caller of another host sleeps inside its gate
C4_Witness ==
    \E cA, cB \in Callers :
        /\ callHost[cA] # callHost[cB]
        /\ callPc[cA] = "returned" /\ ~slept[cA]
        /\ permits[callHost[cA]] >= 2
        /\ last_request[callHost[cA]] = clock
        /\ callPc[cB] = "sleeping" /\ wake[cB] > clock

\* outcomes of shopify.ingest(brand) that are failures other than the
\* robots denial
IsBrandFailure(x) == x \notin {"pending", "persisted", "PermissionError"}

\* C1: when the crawl or the persistence of one brand fails (HTTP error
\* status, transport failure, database error), every other configured brand
\* is still crawled in the same run: once the run is over, no sibling of a
\* failed brand is left untouched.
C1_SiblingsStillCrawled ==
    runPc \in {"done", "aborted"} =>
        \A b1, b2 \in Brands :
            (b1 # b2 /\ IsBrandFailure(outcome[b1])) => outcome[b2] # "pending"

\* C2: whatever the brand crawls and the ads fetches do, the run executes
\* compute_daily_digest and persist_leaderboard for its target date: no run
\* is over without them.
C2_RunEndsWithDigest ==
    runPc \in {"done", "aborted"} => (digestDone /\ target_date \in digests)

\* the cached robots rules of the URL's origin deny its path
Denied(u) ==
    /\ robot_cache[Origin(u)].cached
    /\ Path(u) \in robot_cache[Origin(u)].disallow

\* C7: when the robots rules deny a URL of a brand's crawl, the request is
\* never sent, the crawl of the brand ends with PermissionError (not an HTTP
\* or transport failure), nothing is persisted for the brand in this run,
\* the run logs a skip, the brand loop moves on, and the run is not aborted
\* on account of this brand.
C7_DeniedIsSkipped ==
    \A u \in consulted :
        Denied(u) =>
            LET b == Origin(u)
            IN  /\ u \notin sent
                /\ outcome[b] = "PermissionError"
                /\ ~IsHTTPError(outcome[b]) /\ ~IsTransient(outcome[b])
                /\ b \notin wrote
                /\ b \in skipLog
                /\ brandIdx > b
                /\ runPc = "aborted" =>
                      \E b2 \in Brands \ {b} : IsBrandFailure(outcome[b2])

\* a brand was skipped for a denied URL and the brand after it persisted
C7_Witness ==
    \E u \in consulted :
        /\ Denied(u)
        /\ Origin(u) < MaxBrands
        /\ Origin(u) \in skipLog
        /\ outcome[Origin(u) + 1] = "persisted"

\* C8: a sitemap, catalog-page or product request is sent only for a URL
\* whose origin's robots rules have been obtained (or have failed open) in
\* this run, and only when those rules allow the path of the URL.
C8_SentOnlyIfAllowed ==
    \A u \in sent :
        /\ robotsResult[Origin(u)] # "unfetched"
        /\ robot_cache[Origin(u)].cached
        /\ Path(u) \notin robot_cache[Origin(u)].disallow

\* a product request went out for an origin whose rules deny another of
\* its product paths
C8_Witness ==
    \E u \in sent, v \in consulted :
        /\ u[2] = "product" /\ v[2] = "product"
        /\ Origin(u) = Origin(v)
        /\ Denied(v)

\* fetching robots.txt of the brand's origin failed with an httpx.HTTPError
RobotsFetchFailed(b) == robotsResult[b] \notin {"unfetched", "none"}

\* C9: when the fetch of robots.txt fails (connection error, timeout, HTTP
\* error status), the origin gets the permissive rules, every URL consulted
\* for it is sent, the crawl goes on to the request that asked for the
\* rules, and the failure of the fetch never leaves the crawl.
C9_RobotsFailOpen ==
    \A b \in Brands :
        RobotsFetchFailed(b) =>
            /\ robot_cache[b] = PermissiveRobots
            /\ \A u \in Urls : Origin(u) = b => can_fetch(robot_cache[b], Path(u))
            /\ \A u \in consulted : Origin(u) = b => u \in sent
            /\ outcome[b] # "PermissionError"
            /\ failUrl[b] # RobotsUrl(b)
            /\ \/ runPc = "brands" /\ brandIdx = b /\ ingestPc = "request"
               \/ SitemapUrl(b) \in sent

\* the fetch of robots.txt failed with a connection error and the brand was
\* crawled and persisted all the same
C9_Witness ==
    \E b \in Brands :
        /\ robotsResult[b] = "httpx.ConnectError"
        /\ outcome[b] = "persisted"
        /\ \A h \in Handles : ProductUrl(b, h) \in sent

\* C10, the request: a product request in flight carries the validator the
\* origin returned with the last fetched version of the document
C10_CarriesValidator ==
    \A b \in Brands, h \in Handles :
        (tasks[b, h].st = "inflight" /\ validator[ProductUrl(b, h)] # 0) =>
            tasks[b, h].inm = validator[ProductUrl(b, h)]

\* C10, the result: a product answered with not-modified is no record
C10_NotModifiedOmitted ==
    \A b \in Brands, h \in Handles :
        tasks[b, h].status = 304 => tasks[b, h].st = "skip304"

\* C10, the rows: no step of a run adds or changes a price row of a product
\* that was answered with not-modified in that run
C10_NoPriceChange ==
    \A b \in Brands, h \in Handles :
        (tasks[b, h].status = 304 /\ run' = run) =>
            \A d \in Dates : prices'[b, h, d] = prices[b, h, d]

\* C10: conditional-fetch round trip.  After a product document was fetched
\* and the origin returned a validator, the request of the next crawl for
\* the same URL carries exactly that validator in If-None-Match; when the
\* origin replies not-modified, the product is omitted from the crawl result
\* and no price row is added or changed for it.
C10_RoundTrip ==
    /\ [](C10_CarriesValidator /\ C10_NotModifiedOmitted)
    /\ [][C10_NoPriceChange]_vars

\* the second crawl of a product asked with the validator of the first, was
\* answered not-modified, and the brand persisted with the one price row of
\* the first crawl
C10_Witness ==
    \E b \in Brands, h \in Handles :
        /\ run = 2 /\ target_date = 2
        /\ tasks[b, h].status = 304
        /\ tasks[b, h].inm = validator[ProductUrl(b, h)]
        /\ tasks[b, h].inm # 0
        /\ outcome[b] = "persisted"
        /\ prices[b, h, 1] = 1
        /\ prices[b, h, 2] = 0

\* C11: a not-modified reply to a conditional request of a crawl (sitemap,
\* catalog page or product document) never makes the crawl of the brand
\* fail.
C11_NotModifiedNeverFails ==
    \A b \in Brands :
        IsBrandFailure(outcome[b]) => failStatus[b] # 304

\* the sitemap of the brand was requested and the fetch failed
SitemapFailed(b) == sitemapResult[b] \notin {"unfetched", "none"}

\* a catalog page of the brand went through _request in this run
CatalogConsulted(b) == \E u \in consulted : Origin(u) = b /\ u[2] = "collections"

C13_UnavailableProductSkipped ==
    \A b \in Brands, h \in Handles :
        /\ failUrl[b] = ProductUrl(b, h) => failStatus[b] \notin {403, 404}
        /\ tasks[b, h].status \in {403, 404} =>
              /\ tasks[b, h].st = "skip40x"
              /\ failUrl[b] # ProductUrl(b, h)
              /\ b \in wrote => prices[b, h, target_date] # run
        /\ (tasks[b, h].status = 200 /\ b \in wrote) =>
              prices[b, h, target_date] = run

\* one product of a brand was answered 404, another was fetched, and the
\* brand persisted the fetched one
C13_Witness ==
    \E b \in Brands, h1, h2 \in Handles :
        /\ tasks[b, h1].status = 404
        /\ tasks[b, h2].status = 200
        /\ outcome[b] = "persisted"
        /\ prices[b, h2, target_date] = run
        /\ prices[b, h1, target_date] = 0

\* C15, the state: robots.txt of an origin is fetched at most once in the
\* lifetime of a crawler, and every permission check of the run found the
\* rules of its origin cached
C15_FetchedOnce ==
    /\ \A b \in Brands :
          /\ robotsFetches[b] <= 1
          /\ robot_cache[b].cached =>
                (robotsFetches[b] = 1 /\ robotsResult[b] # "unfetched")
    /\ \A u \in consulted : robot_cache[Origin(u)].cached

\* C15, the steps: cached rules, the fail-open ones included, stay as they
\* are while the crawler lives
C15_CacheKept ==
    \A b \in Brands :
        (robot_cache[b].cached /\ run' = run) => robot_cache'[b] = robot_cache[b]

\* C15: during the lifetime of one crawler the robots ruleset of an origin
\* is fetched at most once, however many sitemap, catalog and product
\* requests target the origin; later permission checks reuse the cached
\* ruleset, including a fail-open one.
C15_RobotsFetchedOnce == []C15_FetchedOnce /\ [][C15_CacheKept]_vars

\* the fetch of robots.txt failed, and the sitemap and every product of the
\* origin were requested on that one fetch
C15_Witness ==
    \E b \in Brands :
        /\ RobotsFetchFailed(b)
        /\ robotsFetches[b] = 1
        /\ SitemapUrl(b) \in sent
        /\ \A h \in Handles : ProductUrl(b, h) \in sent

\* C14: at every moment the requests of one crawler inside
\* `async with self._semaphore` (waiting for the rate limiter, calling, or
\* sleeping in a retry backoff) number at most the configured concurrency,
\* however many requests were started; every permit is accounted for.
C14_InFlightBounded ==
    /\ Cardinality(Holding) <= Concurrency
    /\ semValue + Cardinality(Holding) = Concurrency
    /\ semValue >= 0

\* more requests than permits: every permit is held, one of them by a
\* request waiting for the rate limiter and one by a request in a backoff,
\* and a request queues
C14_Witness ==
    /\ Cardinality(Holding) = Concurrency
    /\ \E t \in Requests : reqPc[t] = "limiter"
    /\ \E t \in Requests : reqPc[t] = "backoff"
    /\ \E t \in Requests : reqPc[t] = "waiting"
    /\ \E t \in Requests : reqPc[t] = "calling" /\ reqKind[t] = "robots"

\* C16: the validator cache is durable.  After any sequence of set
\* operations, with a token or with absent, a cache newly constructed from
\* the backing store returns for every URL what the live cache returns; a
\* URL removed by set(url, absent) remains a miss.
C16_CacheDurable ==
    (cacheState = "dict" /\ cacheFile.kind \in {"missing", "object"}) =>
        \A k \in CacheKeys :
            ETagCacheGet(ETagCacheInit(cacheFile, TRUE).data, k)
                = ETagCacheGet(cacheMem, k)

\* C17: constructing the cache over a corrupt backing store raises no error
\* and yields an empty cache: every get returns absent, and later set and
\* get calls work as on a fresh cache.
C17_CorruptStoreIsEmpty ==
    builtOn \in CorruptKinds =>
        /\ cacheErr = "none"
        /\ cacheState = "dict"
        /\ ~touched => cacheMem = EmptyData
        /\ cacheGot # <<0, 0>> => cacheGot[2] = ETagCacheGet(cacheMem, cacheGot[1])

\* C18: the store holds at most one price observation per (variant, date),
\* and the currency, price, compare-at price and availability of that row
\* are those of the most recent write for the key.
C18_OneRowLatestWrite ==
    /\ \A p, q \in tx.prices : (p.vid = q.vid /\ p.date = q.date) => p = q
    /\ \A p, q \in db.prices : (p.vid = q.vid /\ p.date = q.date) => p = q
    /\ lastWrite # NoWrite => lastWrite \in tx.prices

\* C19: two different variants of one product in a crawl result are stored
\* as two different Variant rows, each with its own price observation of
\* the day, also when their SKU is absent.
C19_VariantsKeptApart ==
    /\ \A i, j \in 1..Len(txIds) : i # j => txIds[i] # txIds[j]
    /\ \A i \in 1..Len(txIds) :
          \E p \in tx.prices : p.vid = txIds[i] /\ p.date = txDate

\* C20, the steps: what readers see changes only when the transaction of a
\* crawl result commits, and then it holds the brand, the product and, for
\* every variant of the result, the variant row and its price row of the
\* day; a failed persist leaves what readers see as it was
C20_VisibleOnlyWhole ==
    db' # db =>
        /\ txPc = "variants" /\ txTodo = <<>> /\ txPc' = "idle"
        /\ db' = tx
        /\ db'.brand /\ db'.product
        /\ \A i \in 1..Len(txIds) :
              /\ \E v \in db'.variants : v.id = txIds[i]
              /\ \E p \in db'.prices :
                    p.vid = txIds[i] /\ p.date = txDate /\ p.price = crawls

\* C20: persisting the crawl result of a brand is atomic for readers.  If
\* the persist fails at any point none of its brand, product, variant or
\* price writes is visible, otherwise all are; no reader sees a product
\* with part of the price observations of the crawl.
C20_PersistAtomic ==
    /\ [](txPc = "idle" => tx = db)
    /\ [][C20_VisibleOnlyWhole]_vars

\* a transaction over committed rows of an earlier crawl has written one
\* variant of its result and not yet the other
C20_Witness ==
    /\ txPc = "variants"
    /\ Len(txIds) >= 1 /\ Len(txTodo) >= 1
    /\ tx.prices # db.prices
    /\ db.prices # {}

\* C21: discount_percentage(price, compare_at) is exactly 0 whenever either
\* input is absent, zero or negative, or price >= compare_at; otherwise it
\* is (compare_at - price) / compare_at; the result always lies in [0, 1].
C21_DiscountInUnitRange ==
    sigOp = "discount_percentage" =>
        LET price == sigArgs[1]
            compare_at == sigArgs[2]
            degenerate ==
                \/ IsNone(price) \/ IsNone(compare_at)
                \/ Val(price) <= 0 \/ Val(compare_at) <= 0
                \/ Val(price) >= Val(compare_at)
        IN  /\ degenerate => sigOut = Zero
            /\ ~degenerate =>
                  sigOut.num * Val(compare_at)
                      = (Val(compare_at) - Val(price)) * sigOut.den
            /\ 0 <= sigOut.num /\ sigOut.num <= sigOut.den

\* the k-th smallest of a list, by counting
KthSmallest(values, k) ==
    CHOOSE v \in {values[i] : i \in 1..Len(values)} :
        /\ Cardinality({i \in 1..Len(values) : values[i] < v}) < k
        /\ k <= Cardinality({i \in 1..Len(values) : values[i] <= v})

NormalizedAs(values, out, flat) ==
    /\ Len(out) = Len(values)
    /\ \A i \in 1..Len(out) : 0 <= out[i].num /\ out[i].num <= out[i].den
    /\ values # <<>> =>
          LET S == {values[i] : i \in 1..Len(values)}
              lo == CHOOSE v \in S : \A w \in S : v <= w
              hi == CHOOSE v \in S : \A w \in S : v >= w
          IN  IF flat
              THEN \A i \in 1..Len(out) : out[i].num = 0
              ELSE \A i \in 1..Len(out) :
                      out[i] = Frac(values[i] - lo, hi - lo)

\* C23 as stated: normalized(values) returns a list of the same length with
\* every element in [0, 1]; when all inputs are equal every output is 0,
\* otherwise each output is (v - min) / (max - min).
C23_NormalizedExact ==
    sigOp = "normalized" =>
        NormalizedAs(sigArgs, sigOut,
                     \A i \in 1..Len(sigArgs) : sigArgs[i] = sigArgs[1])

\* C23 amended: normalized(values) returns a list of the same length with
\* every element in [0, 1]; when every input is within the tolerance of
\* numpy.allclose of the first input every output is 0 (never 0.5),
\* otherwise each output is (v - min) / (max - min), so the minimum maps to
\* 0 and the maximum to 1.
C23_NormalizedWithinTolerance ==
    sigOp = "normalized" => NormalizedAs(sigArgs, sigOut, AllClose(sigArgs))

\* inputs that differ and are within the tolerance
C23_Witness ==
    /\ sigOp = "normalized"
    /\ AllClose(sigArgs)
    /\ \E i \in 1..Len(sigArgs) : sigArgs[i] # sigArgs[1]
    /\ \A i \in 1..Len(sigOut) : sigOut[i] = Zero

\* C24: rank_brands returns min(10, n) entries for n candidate signals,
\* with ranks 1, 2, 3, ... in list order and scores non-increasing; every
\* entry is at the place its combined score (0.5/0.3/0.2 over the
\* normalised dimensions) gives it, candidates of equal combined score in
\* their input order.
C24_RankBrands ==
    sigOp = "rank_brands" =>
        LET n == Len(sigArgs)
            Place(scores, k) ==
                1 + Cardinality({m \in 1..n :
                        \/ FracLess(scores[k], scores[m])
                        \/ FracEq(scores[k], scores[m]) /\ m < k})
        IN  /\ Len(sigOut) = IF n < 10 THEN n ELSE 10
            /\ \A scores \in {Scores(sigArgs)} :
                  \A r \in 1..Len(sigOut) :
                      /\ sigOut[r].rank = r
                      /\ Place(scores, sigOut[r].brand_id) = r
                      /\ sigOut[r].score = Round4(scores[sigOut[r].brand_id])
                      /\ r > 1 => sigOut[r - 1].score >= sigOut[r].score

\* more than ten candidates, some of equal score and some not
C24_Witness ==
    /\ sigOp = "rank_brands"
    /\ Len(sigArgs) > 10
    /\ Len(sigOut) = 10
    /\ sigOut[1].score = sigOut[2].score
    /\ sigOut[1].score > sigOut[10].score

\* the digest of digestDate has been computed
DigestComputed == digestPc = "ingest" /\ digestDate > 0

\* the variants with a price observation dated digestDate
ObservedToday ==
    {v \in DigestBrands :
        ~IsNone(PriceDaysBefore(priceTab, v, digestDate, 0))}

\* percentChange(price on D, price of the same variant on D - 7)
WeekOverWeek(v) ==
    percent_change(PriceDaysBefore(priceTab, v, digestDate, 0),
                   PriceDaysBefore(priceTab, v, digestDate, 7))

\* the brand has an ad observation dated digestDate that surges against
\* its observations of the 6 days before
SurgesToday(b) ==
    LET on == {r \in adsTab : r.brand_id = b /\ r.ts_date = digestDate}
        before == {r \in adsTab : /\ r.brand_id = b
                                  /\ r.ts_date < digestDate
                                  /\ r.ts_date >= digestDate - 6}
    IN  /\ on # {}
        /\ ad_surge((CHOOSE r \in on : TRUE).active_ads,
                    [i \in 1..Cardinality(before) |->
                        Some(ByDate(before)[i].active_ads)])

\* C25: the movers of the digest of a date are the (up to) 10 variants
\* with the largest absolute week-over-week delta among all variants
\* observed on that date whose delta is defined, in descending order of
\* absolute delta.  (The model has fewer than 10 variants: all of them.)
C25_TopMovers ==
    DigestComputed =>
        LET defined == {v \in ObservedToday : ~IsNone(WeekOverWeek(v))}
        IN  /\ Len(digest.movers) = Cardinality(defined)
            /\ {digest.movers[i].variant_id : i \in 1..Len(digest.movers)}
                  = defined
            /\ \A i \in 1..Len(digest.movers) :
                  digest.movers[i].delta_pct_7d
                      = WeekOverWeek(digest.movers[i].variant_id)
            /\ \A i, j \in 1..Len(digest.movers) :
                  i < j =>
                      ~FracLess(
                          Frac(Abs(Val(digest.movers[i].delta_pct_7d).num),
                               Val(digest.movers[i].delta_pct_7d).den),
                          Frac(Abs(Val(digest.movers[j].delta_pct_7d).num),
                               Val(digest.movers[j].delta_pct_7d).den))

\* C26: the ad entries of the digest of a date are exactly the brands whose
\* ad activity surges on that date, cut to the 3 with the highest
\* active-ad counts, in descending order of active-ad count.  (The model
\* has fewer than 3 brands: all of them.)
C26_NotableAds ==
    DigestComputed =>
        /\ {digest.ads[i].brand_id : i \in 1..Len(digest.ads)}
              = {b \in DigestBrands : SurgesToday(b)}
        /\ Len(digest.ads) = Cardinality({b \in DigestBrands : SurgesToday(b)})
        /\ \A i, j \in 1..Len(digest.ads) :
              i < j => digest.ads[i].active_ads >= digest.ads[j].active_ads

\* C28: for a variant observed on date D the week-over-week delta used for
\* the movers is percentChange(price on D, price of the same variant on
\* D - 7), absent when the variant has no observation dated D - 7: the
\* variant is reported as a mover, with that delta, exactly when that delta
\* reaches the mover threshold.
C28_DeltaAgainstSevenDaysBefore ==
    DigestComputed =>
        \A v \in ObservedToday :
            /\ is_mover(WeekOverWeek(v))
                  <=> \E i \in 1..Len(digest.movers) :
                         digest.movers[i].variant_id = v
            /\ \A i \in 1..Len(digest.movers) :
                  digest.movers[i].variant_id = v
                      => digest.movers[i].delta_pct_7d = WeekOverWeek(v)

\* C30: the surge flag and the active-ad count the digest of date D reports
\* for a brand come from the ad observation of the brand dated D, against
\* its observations of the 6 days before; a brand with no ad observation
\* dated D is never reported as surging on D.
C30_AdsOfTheDate ==
    DigestComputed =>
        \A i \in 1..Len(digest.ads) :
            /\ SurgesToday(digest.ads[i].brand_id)
            /\ \E r \in adsTab :
                  /\ r.brand_id = digest.ads[i].brand_id
                  /\ r.ts_date = digestDate
                  /\ r.active_ads = digest.ads[i].active_ads

====
